---- MODULE Spec2Model ----
(***************************************************************************)
(* Model of the Windows Recycle Bin analyzer's binary parsers              *)
(* (src/src/parsers.py): parse_info2_file, the legacy aggregate index      *)
(* parser, and parse_metadata_file, the per-file $I index parser; and of   *)
(* the scan that calls them (src/src/analyzer.py, RecycleBinAnalyzer).     *)
(*                                                                         *)
(* Representation.                                                         *)
(*  - A file is a sequence of bytes (0..255); a read cursor is a byte      *)
(*    offset, as returned by f.tell().                                     *)
(*  - An unsigned 64-bit integer is a tuple of four 16-bit limbs, least    *)
(*    significant first (TLC's integers are 32 bits wide).                 *)
(*  - A Python str is a sequence of code points.                           *)
(*  - A datetime is the number of microseconds since 1601-01-01T00:00:00   *)
(*    (as limbs); the type's maximum is 9999-12-31T23:59:59.999999.        *)
(*  - pathlib.Path is modelled with the Windows flavour, the platform the  *)
(*    analyzer is written for.                                             *)
(***************************************************************************)
EXTENDS Integers, Sequences, FiniteSets, TLC

VARIABLES
    info2_data,     \* the bytes of the INFO2 file being parsed
    i2,             \* the parse_info2_file invocation
    meta_data,      \* the bytes of the $I file being parsed
    metadata_path,  \* metadata_path.name
    parent,         \* the entries of metadata_path.parent
    built,          \* how meta_data was put together
    m,              \* the parse_metadata_file invocation
    meta_data2,     \* the bytes of a second $I file, parsed at the same time
    m2,             \* the parse_metadata_file invocation on meta_data2
    bin,            \* the recycle bin directory the analyzer scans
    an,             \* the RecycleBinAnalyzer object and its call in progress
    returned        \* what the parsers returned for the records of the lists,
                    \* and (order) the names the latest scan was run on, the
                    \* index file's and those given to _scan_sid_folder

vars == <<info2_data, i2, meta_data, metadata_path, parent, built, m,
          meta_data2, m2, bin, an, returned>>

\* Python's None.  Values that may be None are records told apart by their tag.
None == [tag |-> "None"]

Min(a, b) == IF a < b THEN a ELSE b

\* ------------------------------------------------------------------------
\* Byte sources
\* ------------------------------------------------------------------------

\* bytes[a:b] of Python: the 0-based half-open slice, clipped to the length.
Slice(s, a, b) ==
    LET e == Min(b, Len(s))
    IN  IF a >= e THEN << >> ELSE [j \in 1..(e - a) |-> s[a + j]]

\* f.read(n) at cursor pos: at most n bytes, fewer at end of file.
Read(data, pos, n) == Slice(data, pos, pos + n)

\* The cursor after f.read(n) at cursor pos.
Tell(data, pos, n) == pos + Len(Read(data, pos, n))

\* bytes.find(b'\x00'): 0-based index of the first zero byte, -1 if none.
FindZero(s) ==
    IF \E j \in 1..Len(s) : s[j] = 0
    THEN (CHOOSE j \in 1..Len(s) : s[j] = 0 /\ \A k \in 1..(j - 1) : s[k] # 0) - 1
    ELSE -1

\* bytes.endswith(b'\x00\x00')
EndsWithNullPair(s) ==
    Len(s) >= 2 /\ s[Len(s) - 1] = 0 /\ s[Len(s)] = 0

\* bytes.startswith(b'\xff\xfe')
StartsWithBOM(s) ==
    Len(s) >= 2 /\ s[1] = 255 /\ s[2] = 254

\* ------------------------------------------------------------------------
\* struct.unpack
\* ------------------------------------------------------------------------

\* struct.unpack('<I', b)[0] for a 4-byte b.
unpack_I(b) == b[1] + 256 * b[2] + 65536 * b[3] + 16777216 * b[4]

\* struct.unpack('<Q', b)[0] for an 8-byte b, as four 16-bit limbs.
unpack_Q(b) == [j \in 1..4 |-> b[2 * j - 1] + 256 * b[2 * j]]

Zero64 == <<0, 0, 0, 0>>

\* a <= b on 64-bit values
LimbLeq(a, b) ==
    \/ a[4] < b[4]
    \/ a[4] = b[4] /\ a[3] < b[3]
    \/ a[4] = b[4] /\ a[3] = b[3] /\ a[2] < b[2]
    \/ a[4] = b[4] /\ a[3] = b[3] /\ a[2] = b[2] /\ a[1] <= b[1]

\* a // 10 on 64-bit values (schoolbook division, most significant limb first)
FloorDiv10(a) ==
    LET t4 == a[4]
        t3 == (t4 % 10) * 65536 + a[3]
        t2 == (t3 % 10) * 65536 + a[2]
        t1 == (t2 % 10) * 65536 + a[1]
    IN  <<t1 \div 10, t2 \div 10, t3 \div 10, t4 \div 10>>

\* ------------------------------------------------------------------------
\* Timestamps (parsers.py lines 38-44 and 93-99)
\* ------------------------------------------------------------------------

\* datetime.datetime.max - datetime.datetime(1601, 1, 1), in microseconds
\* (265046774399999999).
DatetimeMaxMicros == <<40959, 5369, 41635, 941>>

\* The exception datetime's addition raises past datetime.max.
OverflowError == [tag |-> "OverflowError"]

\* A datetime, as its distance from 1601-01-01T00:00:00.
Datetime(us) == [tag |-> "datetime", micros |-> us]

\* epoch_plus clamping to datetime.max instead of raising
epoch_plus_clamp(us) ==
    IF LimbLeq(us, DatetimeMaxMicros) THEN Datetime(us)
    ELSE Datetime(DatetimeMaxMicros)

\* datetime.datetime(1601, 1, 1) + datetime.timedelta(microseconds=us)
epoch_plus(us) ==
    IF LimbLeq(us, DatetimeMaxMicros) THEN Datetime(us) ELSE OverflowError

\* delete_datetime with the test delete_time >= 0
delete_datetime_ge(delete_time) == epoch_plus(FloorDiv10(delete_time))

\* delete_datetime with delete_time // 100
delete_datetime_div100(delete_time) ==
    IF delete_time # Zero64
    THEN epoch_plus(FloorDiv10(FloorDiv10(delete_time)))
    ELSE None

\* if delete_time > 0:
\*     delete_datetime = datetime.datetime(1601, 1, 1) +
\*                       datetime.timedelta(microseconds=delete_time // 10)
\* else:
\*     delete_datetime = None
delete_datetime(delete_time) ==
    IF delete_time # Zero64
    THEN epoch_plus(FloorDiv10(delete_time))
    ELSE None

\* ------------------------------------------------------------------------
\* bytes.decode('utf-16le', errors='ignore')
\* ------------------------------------------------------------------------

\* The 16-bit code units of a byte string; an odd trailing byte is truncated
\* data, which errors='ignore' drops.
Units(b) == [j \in 1..(Len(b) \div 2) |-> b[2 * j - 1] + 256 * b[2 * j]]

IsHighSurrogate(c) == c >= 55296 /\ c <= 56319
IsLowSurrogate(c) == c >= 56320 /\ c <= 57343

\* The decoder proper.  A high surrogate followed by a low one is one code
\* point; any other surrogate is an error (an illegal surrogate, or an
\* unexpected end of data for a high surrogate in last place), which
\* errors='ignore' skips; every other unit is its own code point.  Whether a
\* unit is kept is decided by the unit and its neighbour alone, because the
\* second half of a pair is never a high surrogate.
StartsChar(u, j) ==
    \/ ~IsHighSurrogate(u[j]) /\ ~IsLowSurrogate(u[j])
    \/ IsHighSurrogate(u[j]) /\ j < Len(u) /\ IsLowSurrogate(u[j + 1])

CharAt(u, j) ==
    IF IsHighSurrogate(u[j])
    THEN 65536 + (u[j] - 55296) * 1024 + (u[j + 1] - 56320)
    ELSE u[j]

DecodeUnits(u) ==
    LET starts == SelectSeq([j \in 1..Len(u) |-> j], LAMBDA j : StartsChar(u, j))
    IN  [i \in 1..Len(starts) |-> CharAt(u, starts[i])]

decode_utf16le(b) == DecodeUnits(Units(b))

\* ------------------------------------------------------------------------
\* parse_info2_file (parsers.py lines 6-56)
\* ------------------------------------------------------------------------

HeaderSize == 20
RecordSize == 280

\* The I/O fault an invocation meets, a field of its state: NoFault for none,
\* 0 when open() raises, n > 0 when the n-th f.read() raises.  Both are
\* inside the try block, so the handler of the function takes over.
NoFault == -1

\* The call about to be made (open() or the next read) raises.
Raises(st) == st.fault = 0 \/ st.fault = st.reads + 1

\* Lines 30-36: the name field is cut at the first zero byte.
original_name_of(name_bytes) ==
    LET name_end == FindZero(name_bytes)
    IN  IF name_end # -1
        THEN decode_utf16le(Slice(name_bytes, 0, name_end))
        ELSE decode_utf16le(name_bytes)

\* info2_record with the size and the ticks taken from each other's bytes
info2_record_swapped(record) ==
    [original_name |-> original_name_of(Slice(record, 16, RecordSize)),
     file_size     |-> unpack_Q(Slice(record, 8, 16)),
     delete_time   |-> delete_datetime(unpack_Q(Slice(record, 0, 8))),
     record_data   |-> record]

\* Lines 27-51: the dictionary appended for one 280-byte record; the
\* delete_time is OverflowError when the conversion raises.
info2_record(record) ==
    [original_name |-> original_name_of(Slice(record, 16, RecordSize)),
     file_size     |-> unpack_Q(Slice(record, 0, 8)),
     delete_time   |-> delete_datetime(unpack_Q(Slice(record, 8, 16))),
     record_data   |-> record]

\* file_count_of reading the version field
file_count_version(header) == unpack_I(Slice(header, 0, 4))

\* file_count_of decoding records only when the version field is 5
file_count_if_v5(header) ==
    IF unpack_I(Slice(header, 0, 4)) = 5 THEN unpack_I(Slice(header, 4, 8)) ELSE 0

\* Line 18: version, file_count = struct.unpack('<II', header[:8])
file_count_of(header) == unpack_I(Slice(header, 4, 8))

\* The state of one invocation before open().
I2Start ==
    [pc |-> "header", pos |-> 0, file_count |-> 0, k |-> 0,
     files_info |-> << >>, error |-> FALSE, fault |-> NoFault, reads |-> 0]

\* Lines 53-56: the handler prints a diagnostic; files_info is returned as
\* it stands.
I2Except(st) == [st EXCEPT !.pc = "done", !.error = TRUE]

\* Lines 13-18: read the header; a short header returns the empty list.
I2ReadHeader(data, st) ==
    LET header == Read(data, st.pos, HeaderSize)
    IN  IF Raises(st) THEN I2Except(st)
        ELSE IF Len(header) < HeaderSize
        THEN [st EXCEPT !.pc = "done", !.pos = Tell(data, st.pos, HeaderSize),
                        !.reads = st.reads + 1]
        ELSE [st EXCEPT !.pc = "loop", !.pos = Tell(data, st.pos, HeaderSize),
                        !.reads = st.reads + 1,
                        !.file_count = file_count_of(header)]

\* I2ReadRecord returning nothing when a record is cut short
I2ReadRecord_discard(data, st) ==
    LET record == Read(data, st.pos, RecordSize)
        pos2   == Tell(data, st.pos, RecordSize)
    IN  IF Raises(st) THEN I2Except(st)
        ELSE IF Len(record) < RecordSize
        THEN [st EXCEPT !.pc = "done", !.pos = pos2, !.reads = st.reads + 1,
                        !.files_info = << >>]
        ELSE LET rec == info2_record(record)
             IN  IF rec.delete_time = OverflowError
                 THEN I2Except([st EXCEPT !.pos = pos2, !.reads = st.reads + 1])
                 ELSE [st EXCEPT !.pos = pos2, !.k = st.k + 1,
                                 !.reads = st.reads + 1,
                                 !.files_info = Append(st.files_info, rec)]

\* Lines 21-51: one iteration of the record loop.  A short read breaks out
\* of the loop; an exception (a read that raises, a delete time past
\* datetime.max) leaves the loop through the handler of line 53, which prints
\* a diagnostic, and line 56 returns files_info as it stands.
I2ReadRecord(data, st) ==
    LET record == Read(data, st.pos, RecordSize)
        pos2   == Tell(data, st.pos, RecordSize)
    IN  IF Raises(st) THEN I2Except(st)
        ELSE IF Len(record) < RecordSize
        THEN [st EXCEPT !.pc = "done", !.pos = pos2, !.reads = st.reads + 1]
        ELSE LET rec == info2_record(record)
             IN  IF rec.delete_time = OverflowError
                 THEN I2Except([st EXCEPT !.pos = pos2, !.reads = st.reads + 1])
                 ELSE [st EXCEPT !.pos = pos2, !.k = st.k + 1,
                                 !.reads = st.reads + 1,
                                 !.files_info = Append(st.files_info, rec)]

\* Line 21 exhausted, line 56: return files_info.
I2Return(st) == [st EXCEPT !.pc = "done"]

I2Step(data, st) ==
    IF st.pc = "header" THEN I2ReadHeader(data, st)
    ELSE IF st.pc = "loop" /\ st.k < st.file_count THEN I2ReadRecord(data, st)
    ELSE IF st.pc = "loop" THEN I2Return(st)
    ELSE st

\* ------------------------------------------------------------------------
\* pathlib.Path(original_path).name, Windows flavour
\* ------------------------------------------------------------------------

Sep == 92       \* backslash
AltSep == 47    \* forward slash
Colon == 58
Dot == 46

IsDriveLetter(c) == (c >= 65 /\ c <= 90) \/ (c >= 97 /\ c <= 122)

\* str.find(sep, start): 0-based index of the first separator at or after
\* the 0-based index start, -1 if none.
RECURSIVE FindSep(_, _)
FindSep(s, start) ==
    IF start >= Len(s) THEN -1
    ELSE IF s[start + 1] = Sep THEN start
    ELSE FindSep(s, start + 1)

\* str.lstrip(sep)
RECURSIVE LStripSep(_)
LStripSep(s) ==
    IF s # << >> /\ s[1] = Sep THEN LStripSep(Tail(s)) ELSE s

\* The part of a path after its drive and root (splitroot of the Windows
\* flavour): a UNC prefix \\machine\share, or a drive letter and colon, and
\* the leading separators are not part of it.
RelativePart(p) ==
    LET n == Len(p)
        first  == IF n >= 1 THEN <<p[1]>> ELSE << >>
        second == IF n >= 2 THEN <<p[2]>> ELSE << >>
        third  == IF n >= 3 THEN <<p[3]>> ELSE << >>
        index  == FindSep(p, 2)
        index2 == FindSep(p, index + 1)
        isUNC  == /\ first = <<Sep>> /\ second = <<Sep>> /\ third # <<Sep>>
                  /\ index # -1 /\ index2 # index + 1
        hasDrv == second = <<Colon>> /\ n >= 1 /\ IsDriveLetter(p[1])
        part   == IF hasDrv THEN Slice(p, 2, n) ELSE p
        first2 == IF hasDrv THEN third ELSE first
    IN  IF isUNC
        THEN IF index2 = -1 THEN << >> ELSE Slice(p, index2 + 1, n)
        ELSE IF first2 = <<Sep>> THEN LStripSep(part) ELSE part

\* str.split(sep)
RECURSIVE SplitSep(_, _, _)
SplitSep(s, j, cur) ==
    IF j > Len(s) THEN <<cur>>
    ELSE IF s[j] = Sep THEN <<cur>> \o SplitSep(s, j + 1, << >>)
    ELSE SplitSep(s, j + 1, Append(cur, s[j]))

IsComponent(x) == x # << >> /\ x # <<Dot>>

\* path_name keeping the whole path
path_name_whole(p) == p

\* PureWindowsPath(p).name: the last component of the relative part, the
\* empty string when there is none.
path_name(p) ==
    LET q     == [j \in 1..Len(p) |-> IF p[j] = AltSep THEN Sep ELSE p[j]]
        parts == SelectSeq(SplitSep(RelativePart(q), 1, << >>), IsComponent)
    IN  IF parts = << >> THEN << >> ELSE parts[Len(parts)]

\* ------------------------------------------------------------------------
\* parse_metadata_file (parsers.py lines 58-140)
\* ------------------------------------------------------------------------

\* b'\x02\x00\x00\x00\x00\x00\x00\x00'
Signature == <<2, 0, 0, 0, 0, 0, 0, 0>>

\* Line 78: if f.tell() > pos + 100
SearchLimit == 100

\* "Unknown"
Unknown == <<85, 110, 107, 110, 111, 119, 110>>

\* str.replace('$I', '$R') on a file name (a sequence of characters): every
\* occurrence is replaced, left to right.
RECURSIVE replace_I_R(_)
replace_I_R(name) ==
    IF Len(name) < 2 THEN name
    ELSE IF name[1] = "$" /\ name[2] = "I"
         THEN <<"$", "R">> \o replace_I_R(Tail(Tail(name)))
         ELSE <<name[1]>> \o replace_I_R(Tail(name))

\* original_path_of keeping the null terminator
strip_never(path_data) == decode_utf16le(path_data)

\* Lines 109-114: the path bytes without one trailing null pair, decoded.
original_path_of(path_data) ==
    IF EndsWithNullPair(path_data)
    THEN decode_utf16le(Slice(path_data, 0, Len(path_data) - 2))
    ELSE decode_utf16le(path_data)

\* Lines 123-136: the dictionary returned.  dir is the directory of the
\* metadata file: a function from the names of its entries to "file" or "dir".
metadata_record(st, original_name, original_path, metadata_name, dir) ==
    LET r_filename == replace_I_R(metadata_name)
        exists     == r_filename \in DOMAIN dir
    IN  [tag              |-> "record",
         original_name    |-> original_name,
         original_path    |-> original_path,
         file_size        |-> st.file_size,
         delete_time      |-> st.delete_datetime,
         recycled_name    |-> metadata_name,
         actual_file_path |-> IF exists THEN [tag |-> "Path", name |-> r_filename]
                              ELSE None,
         can_read_content |-> exists /\ dir[r_filename] = "file",
         metadata_file    |-> metadata_name]

\* The state of one invocation before open().  sig_pos records the offset at
\* which the scan matched the signature (-1 before that).
MStart ==
    [pc |-> "scan", pos |-> 0, sig_pos |-> -1, file_size |-> Zero64,
     delete_time |-> Zero64, delete_datetime |-> None, path_len |-> 0,
     result |-> None, error |-> FALSE, fault |-> NoFault, reads |-> 0]

\* return None after a read that left the cursor at pos2
MReturnNone(st, pos2) ==
    [st EXCEPT !.pc = "done", !.pos = pos2, !.reads = st.reads + 1,
               !.result = None]

\* MExcept letting the exception through to the caller
MExcept_reraise(st) ==
    [st EXCEPT !.pc = "done", !.result = [tag |-> "raised"], !.error = TRUE]

\* Lines 138-140: the handler prints a diagnostic and returns None.
MExcept(st) == [st EXCEPT !.pc = "done", !.result = None, !.error = TRUE]

\* MScan seeking back to pos after a window that starts with FF FE
MScan_stuck(data, st) ==
    LET pos    == st.pos
        header == Read(data, pos, 8)
    IN  IF Raises(st) THEN MExcept(st)
        ELSE IF Len(header) < 8 THEN MReturnNone(st, Tell(data, pos, 8))
        ELSE IF header = Signature
             THEN [st EXCEPT !.pc = "size", !.pos = pos + 8, !.sig_pos = pos,
                             !.reads = st.reads + 1]
        ELSE IF StartsWithBOM(header)
             THEN st
        ELSE LET tell == pos + 1      \* f.seek(pos + 1); f.tell()
             IN  IF tell > pos + SearchLimit
                 THEN MReturnNone(st, tell)
                 ELSE [st EXCEPT !.pos = tell, !.reads = st.reads + 1]

\* MScan moving on by two bytes after a window that does not match
MScan_stride(data, st) ==
    LET pos    == st.pos
        header == Read(data, pos, 8)
    IN  IF Raises(st) THEN MExcept(st)
        ELSE IF Len(header) < 8 THEN MReturnNone(st, Tell(data, pos, 8))
        ELSE IF header = Signature
             THEN [st EXCEPT !.pc = "size", !.pos = pos + 8, !.sig_pos = pos,
                             !.reads = st.reads + 1]
        ELSE IF StartsWithBOM(header)
             THEN [st EXCEPT !.pos = pos + 8, !.reads = st.reads + 1]
        ELSE LET tell == pos + 2      \* f.seek(pos + 1); f.tell()
             IN  IF tell > pos + SearchLimit
                 THEN MReturnNone(st, tell)
                 ELSE [st EXCEPT !.pos = tell, !.reads = st.reads + 1]

\* Lines 63-79: one iteration of the signature scan.  After a window that
\* starts with FF FE the loop continues from where the read left the cursor.
MScan(data, st) ==
    LET pos    == st.pos
        header == Read(data, pos, 8)
    IN  IF Raises(st) THEN MExcept(st)
        ELSE IF Len(header) < 8 THEN MReturnNone(st, Tell(data, pos, 8))
        ELSE IF header = Signature
             THEN [st EXCEPT !.pc = "size", !.pos = pos + 8, !.sig_pos = pos,
                             !.reads = st.reads + 1]
        ELSE IF StartsWithBOM(header)
             THEN [st EXCEPT !.pos = pos + 8, !.reads = st.reads + 1]
        ELSE LET tell == pos + 1      \* f.seek(pos + 1); f.tell()
             IN  IF tell > pos + SearchLimit
                 THEN MReturnNone(st, tell)
                 ELSE [st EXCEPT !.pos = tell, !.reads = st.reads + 1]

\* Lines 82-85: the file size.
MReadSize(data, st) ==
    LET size_data == Read(data, st.pos, 8)
        pos2      == Tell(data, st.pos, 8)
    IN  IF Raises(st) THEN MExcept(st)
        ELSE IF Len(size_data) < 8 THEN MReturnNone(st, pos2)
        ELSE [st EXCEPT !.pc = "time", !.pos = pos2, !.reads = st.reads + 1,
                        !.file_size = unpack_Q(size_data)]

\* Lines 88-99: the deletion time.  An OverflowError is caught at line 138,
\* which prints a diagnostic and returns None.
MReadTime(data, st) ==
    LET time_data == Read(data, st.pos, 8)
        pos2      == Tell(data, st.pos, 8)
    IN  IF Raises(st) THEN MExcept(st)
        ELSE IF Len(time_data) < 8 THEN MReturnNone(st, pos2)
        ELSE LET dt == delete_datetime(unpack_Q(time_data))
             IN  IF dt = OverflowError
                 THEN MExcept([st EXCEPT !.pos = pos2, !.reads = st.reads + 1,
                                         !.delete_time = unpack_Q(time_data)])
                 ELSE [st EXCEPT !.pc = "len", !.pos = pos2,
                                 !.reads = st.reads + 1,
                                 !.delete_time = unpack_Q(time_data),
                                 !.delete_datetime = dt]

\* MReadLen taking a short length field for L = 0
path_len_short_zero(data, st) ==
    LET path_len_data == Read(data, st.pos, 4)
        pos2          == Tell(data, st.pos, 4)
    IN  IF Raises(st) THEN MExcept(st)
        ELSE IF Len(path_len_data) < 4
        THEN [st EXCEPT !.pc = "path", !.pos = pos2, !.reads = st.reads + 1,
                        !.path_len = 0]
        ELSE [st EXCEPT !.pc = "path", !.pos = pos2, !.reads = st.reads + 1,
                        !.path_len = unpack_I(path_len_data)]

\* Lines 102-105: the path length.
MReadLen(data, st) ==
    LET path_len_data == Read(data, st.pos, 4)
        pos2          == Tell(data, st.pos, 4)
    IN  IF Raises(st) THEN MExcept(st)
        ELSE IF Len(path_len_data) < 4 THEN MReturnNone(st, pos2)
        ELSE [st EXCEPT !.pc = "path", !.pos = pos2, !.reads = st.reads + 1,
                        !.path_len = unpack_I(path_len_data)]

\* MReadPath decoding the bytes a short read returned
MReadPath_partial(data, st, metadata_name, dir) ==
    IF st.path_len > 0
    THEN LET path_data == Read(data, st.pos, st.path_len * 2)
             pos2      == Tell(data, st.pos, st.path_len * 2)
         IN  IF Raises(st) THEN MExcept(st)
             ELSE IF Len(path_data) >= st.path_len * 2
             THEN LET original_path == original_path_of(path_data)
                  IN  [st EXCEPT !.pc = "done", !.pos = pos2,
                          !.reads = st.reads + 1,
                          !.result = metadata_record(st, path_name(original_path),
                                         original_path, metadata_name, dir)]
             ELSE LET original_path == decode_utf16le(path_data)
                  IN  [st EXCEPT !.pc = "done", !.pos = pos2,
                          !.reads = st.reads + 1,
                          !.result = metadata_record(st, path_name(original_path),
                                         original_path, metadata_name, dir)]
    ELSE [st EXCEPT !.pc = "done",
             !.result = metadata_record(st, Unknown, Unknown, metadata_name, dir)]

\* MReadPath reading and decoding the path of a record with L = 0
MReadPath_always(data, st, metadata_name, dir) ==
    IF st.path_len >= 0
    THEN LET path_data == Read(data, st.pos, st.path_len * 2)
             pos2      == Tell(data, st.pos, st.path_len * 2)
         IN  IF Raises(st) THEN MExcept(st)
             ELSE IF Len(path_data) >= st.path_len * 2
             THEN LET original_path == original_path_of(path_data)
                  IN  [st EXCEPT !.pc = "done", !.pos = pos2,
                          !.reads = st.reads + 1,
                          !.result = metadata_record(st, path_name(original_path),
                                         original_path, metadata_name, dir)]
             ELSE [st EXCEPT !.pc = "done", !.pos = pos2, !.reads = st.reads + 1,
                      !.result = metadata_record(st, Unknown, Unknown,
                                                 metadata_name, dir)]
    ELSE [st EXCEPT !.pc = "done",
             !.result = metadata_record(st, Unknown, Unknown, metadata_name, dir)]

\* Lines 108-136: the original path and name, and the record returned.
MReadPath(data, st, metadata_name, dir) ==
    IF st.path_len > 0
    THEN LET path_data == Read(data, st.pos, st.path_len * 2)
             pos2      == Tell(data, st.pos, st.path_len * 2)
         IN  IF Raises(st) THEN MExcept(st)
             ELSE IF Len(path_data) >= st.path_len * 2
             THEN LET original_path == original_path_of(path_data)
                  IN  [st EXCEPT !.pc = "done", !.pos = pos2,
                          !.reads = st.reads + 1,
                          !.result = metadata_record(st, path_name(original_path),
                                         original_path, metadata_name, dir)]
             ELSE [st EXCEPT !.pc = "done", !.pos = pos2, !.reads = st.reads + 1,
                      !.result = metadata_record(st, Unknown, Unknown,
                                                 metadata_name, dir)]
    ELSE [st EXCEPT !.pc = "done",
             !.result = metadata_record(st, Unknown, Unknown, metadata_name, dir)]

MStep(data, st, metadata_name, dir) ==
    IF st.pc = "scan" THEN MScan(data, st)
    ELSE IF st.pc = "size" THEN MReadSize(data, st)
    ELSE IF st.pc = "time" THEN MReadTime(data, st)
    ELSE IF st.pc = "len" THEN MReadLen(data, st)
    ELSE IF st.pc = "path" THEN MReadPath(data, st, metadata_name, dir)
    ELSE st

\* parse_metadata_file as a function of its input: the state it ends in.
RECURSIVE MRun(_, _, _, _)
MRun(data, st, metadata_name, dir) ==
    IF st.pc = "done" THEN st
    ELSE MRun(data, MStep(data, st, metadata_name, dir), metadata_name, dir)

parse_metadata_file(data, metadata_name, dir) ==
    MRun(data, MStart, metadata_name, dir).result

\* parse_info2_file as a function of its input: the state it ends in.
RECURSIVE I2Run(_, _)
I2Run(data, st) ==
    IF st.pc = "done" THEN st ELSE I2Run(data, I2Step(data, st))

parse_info2_file(data) == I2Run(data, I2Start).files_info

\* ------------------------------------------------------------------------
\* Inputs
\* ------------------------------------------------------------------------

MaxRecords == 2     \* full records in a legacy index
MaxPathLen == 3     \* characters in an enumerated original path
MaxJunk == 3        \* enumerated lengths of leading junk

Rep(b, n) == [j \in 1..n |-> b]

\* UTF-16LE bytes of a sequence of code units
UnitBytes(u) ==
    [j \in 1..(2 * Len(u)) |->
        IF j % 2 = 1 THEN u[(j + 1) \div 2] % 256 ELSE u[j \div 2] \div 256]

\* str.encode('utf-16le'): the code units of a text; a surrogate code point
\* stands for that raw code unit, so that malformed fields can be built
RECURSIVE TextUnits(_)
TextUnits(t) ==
    IF t = << >> THEN << >>
    ELSE IF t[1] >= 65536
         THEN <<55296 + ((t[1] - 65536) \div 1024), 56320 + ((t[1] - 65536) % 1024)>>
                  \o TextUnits(Tail(t))
         ELSE <<t[1]>> \o TextUnits(Tail(t))

\* struct.pack('<I', n) for n < 65536
pack_I(n) == <<n % 256, n \div 256, 0, 0>>

\* 64-bit values, as their eight little-endian bytes
B_0     == <<0, 0, 0, 0, 0, 0, 0, 0>>
B_1     == <<1, 0, 0, 0, 0, 0, 0, 0>>
B_10    == <<10, 0, 0, 0, 0, 0, 0, 0>>
B_15    == <<15, 0, 0, 0, 0, 0, 0, 0>>
B_1024  == <<0, 4, 0, 0, 0, 0, 0, 0>>
B_2020  == <<0, 0, 5, 105, 54, 192, 213, 1>>          \* 2020-01-01T00:00:00
B_Last  == <<255, 63, 192, 209, 94, 90, 200, 36>>     \* 9999-12-31T23:59:59.9999999
B_Over  == <<0, 64, 192, 209, 94, 90, 200, 36>>       \* one tick later
B_Big   == <<255, 255, 255, 255, 255, 255, 255, 255>>
B_Sized == <<7, 1, 2, 3, 4, 5, 6, 9>>

TickPool == {B_0, B_1, B_10, B_15, B_2020, B_Last, B_Over, B_Big}
SizePool == {B_1024, B_Sized}

\* --- legacy index ---

NameWidth == 264

\* A name field: the code units, a null code unit when terminated, and
\* filler bytes up to the field's width.
NameField(units, terminated, fill) ==
    LET head == UnitBytes(units) \o (IF terminated THEN <<0, 0>> ELSE << >>)
    IN  head \o Rep(fill, NameWidth - Len(head))

Info2Record(size, ticks, name) == size \o ticks \o name

RecordPool ==
    { Info2Record(B_1024, B_0, NameField(<<97, 98, 99>>, TRUE, 90)),
      Info2Record(B_Sized, B_2020, NameField(<<20013, 22269>>, TRUE, 90)),
      Info2Record(B_1, B_15, NameField(<< >>, FALSE, 90)),
      Info2Record(B_0, B_Last, NameField(<< >>, TRUE, 0)),
      Info2Record(B_1024, B_Over, NameField(<<97>>, TRUE, 0)),
      Info2Record(B_Big, B_1, NameField(<<55357, 56832, 20013>>, TRUE, 171)),
      Info2Record(B_10, B_10, NameField(<<20013, 55297, 22269>>, TRUE, 90)) }

RECURSIVE Flatten(_)
Flatten(ss) == IF ss = << >> THEN << >> ELSE ss[1] \o Flatten(Tail(ss))

Info2Header(version, count) ==
    pack_I(version) \o pack_I(count) \o <<1, 2, 3, 4, 5, 6, 7, 8, 9, 10, 11, 12>>

Info2Inputs ==
    { Slice(Info2Header(0, 2), 0, n) : n \in {0, 8, 19} }
    \cup
    { Info2Header(version, count) \o Flatten(recs) \o Rep(65, tail) :
        version \in {0, 5},
        count \in {0, 1, 2, MaxRecords + 1, 65535},
        recs \in UNION { [1..n -> RecordPool] : n \in 0..MaxRecords },
        tail \in {0, RecordSize - 1} }

\* --- per-file index ---

PathAlphabet == {67, Colon, Sep, 97, AltSep}

PickedPaths ==
    { <<67, 58, 92, 97>>,                   \* C:\a
      <<67, 58, 92, 97, 92, 97, 67>>,       \* C:\a\aC
      <<92, 92, 97, 92, 97>>,               \* \\a\a
      <<92, 92, 97, 92, 97, 92, 67>>,       \* \\a\a\C
      <<67, 58, 92, 128512>>,               \* C:\ and U+1F600
      <<97, 0>>,
      <<67, 58, 92, 20013, 46, 97>>,
      << >>,
      <<67, 55297, 97>>,                    \* an unpaired high surrogate
      <<56320, 97>>,                        \* an unpaired low surrogate
      <<97, 55297>> }

Paths ==
    PickedPaths \cup UNION { [1..n -> PathAlphabet] : n \in 1..MaxPathLen }

\* How a per-file input was built: junk, then the signature, the size, the
\* ticks, the length field and the encoded path (with a null code unit when
\* terminated), then extra bytes; cut bytes are then removed from the end.
MetaBody(g) ==
    Signature \o g.size \o g.ticks \o pack_I(g.path_len)
        \o UnitBytes(TextUnits(g.path)) \o (IF g.terminated THEN <<0, 0>> ELSE << >>)
        \o g.extra

MetaBytes(g) ==
    LET all == g.junk \o MetaBody(g)
    IN  Slice(all, 0, Len(all) - g.cut)

Built(junk, size, ticks, path, terminated, extra, cut) ==
    [junk |-> junk, size |-> size, ticks |-> ticks, path |-> path,
     path_len |-> Len(TextUnits(path)) + (IF terminated THEN 1 ELSE 0),
     terminated |-> terminated, extra |-> extra, cut |-> cut]

Example == Built(<< >>, B_1024, B_0, <<67, 58, 92, 97>>, TRUE, << >>, 0)

JunkPool ==
    { Rep(65, n) : n \in 0..MaxJunk }
    \cup { Rep(65, n) : n \in {SearchLimit - 1, SearchLimit, SearchLimit + 1} }
    \cup { <<255, 254>>, <<255>>, <<254, 255>>, <<65, 255, 254>>,
           <<255, 254, 65, 65, 65, 65, 65, 65>>,
           <<255, 254, 255, 254, 255, 254, 255, 254>> }

MetaBuilds ==
    { Built(<< >>, size, ticks, <<67, 58, 92, 97>>, terminated, << >>, 0) :
        size \in SizePool, ticks \in TickPool, terminated \in BOOLEAN }
    \cup
    { Built(<< >>, B_1024, ticks, path, terminated, extra, 0) :
        ticks \in {B_0, B_2020}, path \in Paths, terminated \in BOOLEAN,
        extra \in {<< >>, <<97, 0>>} }
    \cup
    { Built(junk, size, B_15, <<67, 58, 92, 97>>, TRUE, << >>, 0) :
        junk \in JunkPool, size \in {B_1024, Signature} }
    \cup
    { Built(junk, B_1024, ticks, <<67, 58, 92, 97>>, TRUE, << >>, cut) :
        junk \in {<< >>, <<65>>}, ticks \in {B_2020, B_Over},
        cut \in 1..Len(MetaBody(Example)) }
    \cup
    { Built(<< >>, B_1024, B_2020, << >>, FALSE, extra, 0) :
        extra \in {UnitBytes(<<67, 58, 92, 97, 0>>), <<1>>} }

\* I/O faults: open() raising, or one of the first MaxFault reads raising.
MaxFault == 5

Faults == 0..MaxFault

\* The inputs on which the faults are tried.
FaultyInfo2Inputs ==
    { Info2Header(0, count) \o Flatten(recs) :
        count \in {0, 2}, recs \in [1..2 -> RecordPool] }

FaultyMetaBuilds ==
    { Built(junk, B_1024, B_2020, <<67, 58, 92, 97>>, TRUE, << >>, 0) :
        junk \in {<< >>, <<65>>} }

FileNames == { <<"$", "I", "A", "B">>, <<"$", "I", "$", "I">> }

Dirs(name) ==
    LET r_all   == replace_I_R(name)
        r_first == <<"$", "R">> \o Tail(Tail(name))
    IN  { [n \in present |-> kind] :
            present \in SUBSET {r_all, r_first}, kind \in {"file", "dir"} }

\* --- the recycle bin ---

MaxAnalyze == 2     \* calls of analyze() on one analyzer

SidA == <<"S", "-", "1">>
SidB == <<"S", "-", "2">>
SidGone == <<"S", "-", "9">>      \* a SID with no folder in the bin
NotSid == <<"X">>

SidNames == {SidA, SidB, SidGone, NotSid}

\* What sid.get_sid_info may answer
SidInfos ==
    { [username |-> << >>, description |-> << >>],
      [username |-> <<"u">>, description |-> << >>],
      [username |-> <<"u">>, description |-> <<"U", "s", "e", "r">>] }

Entry(name, kind, data) == [name |-> name, kind |-> kind, data |-> data]

E_rec == Entry(<<"$", "I", "A", "B">>, "file", MetaBytes(Example))
E_cut == Entry(<<"$", "I", "C", "D">>, "file", Slice(MetaBytes(Example), 0, 20))
E_unk ==
    Entry(<<"$", "I", "E", "F">>, "file",
          MetaBytes(Built(<< >>, B_Sized, B_2020, << >>, FALSE, << >>, 0)))
E_content == Entry(<<"$", "R", "A", "B">>, "file", <<1>>)
E_dir == Entry(<<"$", "I", "G", "H">>, "dir", << >>)

FolderPool ==
    { << >>, <<E_rec>>, <<E_cut, E_rec>>, <<E_rec, E_content>>,
      <<E_dir, E_unk>>, <<E_unk, E_rec>>, <<E_content>> }

Item(name, kind, entries, fault) ==
    [name |-> name, kind |-> kind, entries |-> entries, fault |-> fault]

BinItems ==
    { << >>,
      <<Item(SidA, "file", << >>, FALSE)>>,
      <<Item(NotSid, "dir", <<E_rec>>, FALSE), Item(SidA, "dir", <<E_unk>>, FALSE)>>,
      <<Item(SidA, "dir", <<E_rec>>, TRUE), Item(SidB, "dir", <<E_unk>>, FALSE)>>,
      <<Item(SidA, "dir", <<E_rec>>, TRUE), Item(SidB, "dir", <<E_cut, E_rec>>, FALSE)>>,
      <<Item(SidB, "dir", <<E_rec>>, FALSE), Item(SidA, "dir", <<E_unk>>, TRUE)>> }
    \cup
    { <<Item(SidA, "dir", c, f)>> : c \in FolderPool, f \in BOOLEAN }
    \cup
    UNION { { <<Item(SidA, "dir", c1, FALSE), Item(SidB, "dir", c2, FALSE)>>,
              <<Item(SidB, "dir", c2, FALSE), Item(SidA, "dir", c1, FALSE)>> } :
            c1 \in {<<E_rec>>, <<E_cut, E_rec>>, << >>},
            c2 \in {<<E_unk, E_rec>>, <<E_dir, E_unk>>, << >>} }

\* A legacy index of one record, and one whose second record cannot be
\* converted.
Info2One ==
    Info2Header(0, 1) \o Info2Record(B_Sized, B_2020, NameField(<<20013, 22269>>, TRUE, 90))

Info2Broken ==
    Info2Header(0, 2)
        \o Info2Record(B_1, B_15, NameField(<< >>, FALSE, 90))
        \o Info2Record(B_1024, B_Over, NameField(<<97>>, TRUE, 0))

Bins ==
    { [exists |-> FALSE, has_info2 |-> FALSE, info2 |-> << >>, items |-> << >>] }
    \cup
    { [exists |-> TRUE, has_info2 |-> FALSE, info2 |-> << >>, items |-> items] :
        items \in BinItems }
    \cup
    { [exists |-> TRUE, has_info2 |-> TRUE, info2 |-> data, items |-> items] :
        data \in {Info2One, Info2Broken}, items \in BinItems }

\* ------------------------------------------------------------------------
\* RecycleBinAnalyzer (analyzer.py)
\*
\* A directory entry is [name, kind, data] (kind "file" or "dir"); an item of
\* the recycle bin is [name, kind, entries, fault], entries in the order
\* iterdir() yields them and fault telling that iterdir() on the item raises.
\* A display name is [username, paren]: "username (paren)", or the text
\* paren alone when username is empty.
\* ------------------------------------------------------------------------

\* str.startswith of a two-character prefix
StartsWith(name, a, b) == Len(name) >= 2 /\ name[1] = a /\ name[2] = b

\* Lines 40-47: the display name made from the answer of sid.get_sid_info
display_name(sid_string, sid_info) ==
    IF sid_info.username # << >>
    THEN IF sid_info.description # << >>
         THEN [username |-> sid_info.username, paren |-> sid_info.description]
         ELSE [username |-> sid_info.username, paren |-> sid_string]
    ELSE [username |-> << >>, paren |-> sid_string]

\* get_sid_display_name asking sid.get_sid_info on every call
get_sid_display_name_uncached(a, sid_string, sid_info) ==
    [a EXCEPT !.sid_cache = (sid_string :> display_name(sid_string, sid_info)) @@ @,
              !.lookups = [@ EXCEPT ![sid_string] = @ + 1]]

\* Lines 38-49: _get_sid_display_name, as the analyzer after the call; the
\* name is then a.sid_cache[sid_string].  sid_info is what sid.get_sid_info
\* answers if it is asked; lookups counts its invocations.
get_sid_display_name(a, sid_string, sid_info) ==
    IF sid_string \in DOMAIN a.sid_cache
    THEN a
    ELSE [a EXCEPT !.sid_cache = @ @@ (sid_string :> display_name(sid_string, sid_info)),
                   !.lookups = [@ EXCEPT ![sid_string] = @ + 1]]

\* The directory of an item, as parse_metadata_file sees it
DirOf(item) ==
    [n \in { item.entries[j].name : j \in 1..Len(item.entries) } |->
        (CHOOSE e \in { item.entries[j] : j \in 1..Len(item.entries) } :
            e.name = n).kind]

\* annotate writing the folder's name over recycled_name
annotate_overwrite(file_info, sid_folder, sid_display) ==
    [k \in DOMAIN file_info \cup {"sid_folder", "sid_display"} |->
        IF k = "sid_folder" \/ k = "recycled_name" THEN sid_folder
        ELSE IF k = "sid_display" THEN sid_display
        ELSE file_info[k]]

\* Lines 122-123: file_info['sid_folder'] = ...; file_info['sid_display'] = ...
annotate(file_info, sid_folder, sid_display) ==
    [k \in DOMAIN file_info \cup {"sid_folder", "sid_display"} |->
        IF k = "sid_folder" THEN sid_folder
        ELSE IF k = "sid_display" THEN sid_display
        ELSE file_info[k]]

\* Lines 118-124: the loop over i_files from its k-th file on.  ls is
\* <<files_info, returned>>: the list, and next to it what the parser
\* returned for each of its records.
RECURSIVE ScanFiles(_, _, _, _, _)
ScanFiles(item, i_files, k, sid_display, ls) ==
    IF k > Len(i_files) THEN ls
    ELSE LET i_file    == i_files[k]
             file_info == parse_metadata_file(i_file.data, i_file.name, DirOf(item))
         IN  IF file_info # None
             THEN ScanFiles(item, i_files, k + 1, sid_display,
                      <<Append(ls[1], annotate(file_info, item.name, sid_display)),
                        Append(ls[2], file_info)>>)
             ELSE ScanFiles(item, i_files, k + 1, sid_display, ls)

\* scan_sid_folder emptying the list when iterdir() raises
scan_sid_folder_reset(a, ret, item, sid_info) ==
    IF item.kind # "dir" \/ item.fault
    THEN <<[a EXCEPT !.scan = << >>], << >>>>
    ELSE LET i_files == SelectSeq(item.entries,
                            LAMBDA f : f.kind = "file" /\ StartsWith(f.name, "$", "I"))
             a2      == get_sid_display_name(a, item.name, sid_info)
         IN  IF i_files = << >>
             THEN <<a2, ret>>
             ELSE LET ls == ScanFiles(item, i_files, 1, a2.sid_cache[item.name],
                                      <<a2.scan, ret>>)
                  IN  <<[a2 EXCEPT !.scan = ls[1]], ls[2]>>

\* Lines 104-127: _scan_sid_folder(sid_path, files_info) on the analyzer a
\* whose list in progress is a.scan; ret is what the parsers returned for
\* the records of a.scan.  The result is <<analyzer, ret>> after the call.
\* iterdir() raises on an item that is no directory or cannot be listed; the
\* handler prints a diagnostic.
scan_sid_folder(a, ret, item, sid_info) ==
    IF item.kind # "dir" \/ item.fault
    THEN <<a, ret>>
    ELSE LET i_files == SelectSeq(item.entries,
                            LAMBDA f : f.kind = "file" /\ StartsWith(f.name, "$", "I"))
             a2      == get_sid_display_name(a, item.name, sid_info)
         IN  IF i_files = << >>
             THEN <<a2, ret>>
             ELSE LET ls == ScanFiles(item, i_files, 1, a2.sid_cache[item.name],
                                      <<a2.scan, ret>>)
                  IN  <<[a2 EXCEPT !.scan = ls[1]], ls[2]>>

\* self.current_user_sid is set and not empty
KnowsCurrentUser(a) == a.current_user_sid # << >>

\* The name of the legacy index file (line 68)
Info2Name == <<"I", "N", "F", "O", "2">>

\* IsOtherFolder taking every SID folder for another user's
IsOtherFolder_any(a, sid_folder) == TRUE

\* Line 97: the test of the second pass, which leaves out the folder named
\* as the current user's SID
IsOtherFolder(a, sid_folder) ==
    ~KnowsCurrentUser(a) \/ sid_folder.name # a.current_user_sid

\* The items of the recycle bin named name
ItemsNamed(b, name) ==
    SelectSeq(b.items, LAMBDA item : item.name = name)

\* ------------------------------------------------------------------------
\* The parsers as state machines
\* ------------------------------------------------------------------------

Idle == [pc |-> "idle"]

NoMeta ==
    /\ meta_data = << >>
    /\ metadata_path = <<"$", "I">>
    /\ parent = << >>
    /\ built = Example
    /\ m = Idle

NoInfo2 ==
    /\ info2_data = << >>
    /\ i2 = Idle

NoMeta2 ==
    /\ meta_data2 = << >>
    /\ m2 = Idle

NoAnalyzer ==
    /\ bin = [exists |-> FALSE, has_info2 |-> FALSE, info2 |-> << >>, items |-> << >>]
    /\ an = Idle
    /\ returned = [scan |-> << >>, self |-> << >>, order |-> << >>]

\* parse_info2_file is called on some INFO2 file.
InitInfo2 ==
    /\ \/ /\ info2_data \in Info2Inputs
          /\ i2 = I2Start
       \/ /\ info2_data \in FaultyInfo2Inputs
          /\ \E f \in Faults : i2 = [I2Start EXCEPT !.fault = f]
    /\ NoMeta
    /\ NoMeta2
    /\ NoAnalyzer

\* parse_metadata_file is called on some $I file.
InitMeta ==
    /\ \/ /\ built \in MetaBuilds
          /\ metadata_path = <<"$", "I", "A", "B">>
          /\ parent = << >>
          /\ m = MStart
       \/ /\ built = Example
          /\ metadata_path \in FileNames
          /\ parent \in Dirs(metadata_path)
          /\ m = MStart
       \/ /\ built \in FaultyMetaBuilds
          /\ metadata_path = <<"$", "I", "A", "B">>
          /\ parent = << >>
          /\ \E f \in Faults : m = [MStart EXCEPT !.fault = f]
    /\ meta_data = MetaBytes(built)
    /\ NoInfo2
    /\ NoMeta2
    /\ NoAnalyzer

InitParsers == InitInfo2 \/ InitMeta

I2_ReadHeader ==
    /\ i2.pc = "header"
    /\ i2' = I2ReadHeader(info2_data, i2)
    /\ UNCHANGED <<info2_data, meta_data, metadata_path, parent, built, m,
                   meta_data2, m2, bin, an, returned>>

I2_ReadRecord ==
    /\ i2.pc = "loop"
    /\ i2.k < i2.file_count
    /\ i2' = I2ReadRecord(info2_data, i2)
    /\ UNCHANGED <<info2_data, meta_data, metadata_path, parent, built, m,
                   meta_data2, m2, bin, an, returned>>

I2_Return ==
    /\ i2.pc = "loop"
    /\ i2.k >= i2.file_count
    /\ i2' = I2Return(i2)
    /\ UNCHANGED <<info2_data, meta_data, metadata_path, parent, built, m,
                   meta_data2, m2, bin, an, returned>>

M_Scan ==
    /\ m.pc = "scan"
    /\ m' = MScan(meta_data, m)
    /\ UNCHANGED <<info2_data, i2, meta_data, metadata_path, parent, built,
                   meta_data2, m2, bin, an, returned>>

M_ReadSize ==
    /\ m.pc = "size"
    /\ m' = MReadSize(meta_data, m)
    /\ UNCHANGED <<info2_data, i2, meta_data, metadata_path, parent, built,
                   meta_data2, m2, bin, an, returned>>

M_ReadTime ==
    /\ m.pc = "time"
    /\ m' = MReadTime(meta_data, m)
    /\ UNCHANGED <<info2_data, i2, meta_data, metadata_path, parent, built,
                   meta_data2, m2, bin, an, returned>>

M_ReadLen ==
    /\ m.pc = "len"
    /\ m' = MReadLen(meta_data, m)
    /\ UNCHANGED <<info2_data, i2, meta_data, metadata_path, parent, built,
                   meta_data2, m2, bin, an, returned>>

M_ReadPath ==
    /\ m.pc = "path"
    /\ m' = MReadPath(meta_data, m, metadata_path, parent)
    /\ UNCHANGED <<info2_data, i2, meta_data, metadata_path, parent, built,
                   meta_data2, m2, bin, an, returned>>

\* --- the analyzer ---

\* Lines 11-15: the analyzer after __init__, for one answer of
\* sid.get_current_user_sid.  scan, sid_folders and idx are the locals
\* of the _scan_recycle_bin call in progress (files_info, sid_folders and
\* the position of its last loop); calls counts the calls of analyze()
\* that returned and lookups those of sid.get_sid_info.
NewAnalyzer(current_user_sid) ==
    [pc |-> "ready", files_info |-> << >>, current_user_sid |-> current_user_sid,
     sid_cache |-> << >>, lookups |-> [s \in SidNames |-> 0],
     scan |-> << >>, sid_folders |-> << >>, idx |-> 0, calls |-> 0]

InitAnalyzer ==
    /\ bin \in Bins
    /\ \E sid \in {<< >>, SidA, SidB, SidGone} : an = NewAnalyzer(sid)
    /\ returned = [scan |-> << >>, self |-> << >>, order |-> << >>]
    /\ NoInfo2
    /\ NoMeta
    /\ NoMeta2

\* Lines 51-65: analyze() is called and _scan_recycle_bin starts; with no
\* recycle bin it returns the empty list at once.
A_Analyze ==
    /\ an.pc = "ready"
    /\ an.calls < MaxAnalyze
    /\ IF ~bin.exists
       THEN /\ an' = [an EXCEPT !.files_info = << >>, !.calls = @ + 1]
            /\ returned' = [returned EXCEPT !.self = << >>, !.order = << >>]
       ELSE /\ an' = [an EXCEPT !.pc = "info2", !.scan = << >>]
            /\ returned' = [returned EXCEPT !.scan = << >>, !.order = << >>]
    /\ UNCHANGED <<info2_data, i2, meta_data, metadata_path, parent, built, m,
                   meta_data2, m2, bin>>

\* Lines 67-71: the records of the INFO2 file, if there is one.
A_ScanInfo2 ==
    /\ an.pc = "info2"
    /\ LET found == IF bin.has_info2 THEN parse_info2_file(bin.info2) ELSE << >>
       IN  /\ an' = [an EXCEPT !.pc = "list", !.scan = @ \o found]
           /\ returned' = [returned EXCEPT !.scan = @ \o found,
                                   !.order = IF bin.has_info2
                                             THEN Append(@, Info2Name) ELSE @]
    /\ UNCHANGED <<info2_data, i2, meta_data, metadata_path, parent, built, m,
                   meta_data2, m2, bin>>

\* Lines 73-85: the current user's display name is looked up and the SID
\* folders are listed.
A_ListFolders ==
    /\ an.pc = "list"
    /\ \E sid_info \in SidInfos :
          LET a2 == IF KnowsCurrentUser(an)
                    THEN get_sid_display_name(an, an.current_user_sid, sid_info)
                    ELSE an
          IN  an' = [a2 EXCEPT !.pc = "current",
                        !.sid_folders =
                            SelectSeq(bin.items,
                                LAMBDA item : item.kind = "dir"
                                              /\ StartsWith(item.name, "S", "-"))]
    /\ UNCHANGED <<info2_data, i2, meta_data, metadata_path, parent, built, m,
                   meta_data2, m2, bin, returned>>

\* Lines 87-93: the current user's folder is scanned first.
A_ScanCurrent ==
    /\ an.pc = "current"
    /\ \E sid_info \in SidInfos :
          IF KnowsCurrentUser(an) /\ ItemsNamed(bin, an.current_user_sid) # << >>
          THEN LET a2 == get_sid_display_name(an, an.current_user_sid, sid_info)
                   r  == scan_sid_folder(a2, returned.scan,
                             ItemsNamed(bin, an.current_user_sid)[1], sid_info)
               IN  /\ an' = [r[1] EXCEPT !.pc = "others", !.idx = 1]
                   /\ returned' = [returned EXCEPT !.scan = r[2],
                                       !.order = Append(@, an.current_user_sid)]
          ELSE /\ an' = [an EXCEPT !.pc = "others", !.idx = 1]
               /\ UNCHANGED returned
    /\ UNCHANGED <<info2_data, i2, meta_data, metadata_path, parent, built, m,
                   meta_data2, m2, bin>>

\* Lines 95-100: one iteration of the loop over the SID folders.
A_ScanOther ==
    /\ an.pc = "others"
    /\ an.idx <= Len(an.sid_folders)
    /\ \E sid_info \in SidInfos :
          LET sid_folder == an.sid_folders[an.idx]
          IN  IF IsOtherFolder(an, sid_folder)
              THEN LET a2 == get_sid_display_name(an, sid_folder.name, sid_info)
                       r  == scan_sid_folder(a2, returned.scan, sid_folder, sid_info)
                   IN  /\ an' = [r[1] EXCEPT !.idx = @ + 1]
                       /\ returned' = [returned EXCEPT !.scan = r[2],
                                           !.order = Append(@, sid_folder.name)]
              ELSE /\ an' = [an EXCEPT !.idx = @ + 1]
                   /\ UNCHANGED returned
    /\ UNCHANGED <<info2_data, i2, meta_data, metadata_path, parent, built, m,
                   meta_data2, m2, bin>>

\* A_Return adding the list of the scan to self.files_info
A_Return_extend ==
    /\ an.pc = "others"
    /\ an.idx > Len(an.sid_folders)
    /\ an' = [an EXCEPT !.pc = "ready", !.files_info = @ \o an.scan, !.calls = @ + 1,
                        !.scan = << >>, !.sid_folders = << >>, !.idx = 0]
    /\ returned' = [returned EXCEPT !.scan = << >>, !.self = returned.scan]
    /\ UNCHANGED <<info2_data, i2, meta_data, metadata_path, parent, built, m,
                   meta_data2, m2, bin>>

\* Lines 102 and 54-55: _scan_recycle_bin returns its list, analyze() stores
\* it in self.files_info and returns it.
A_Return ==
    /\ an.pc = "others"
    /\ an.idx > Len(an.sid_folders)
    /\ an' = [an EXCEPT !.pc = "ready", !.files_info = an.scan, !.calls = @ + 1,
                        !.scan = << >>, !.sid_folders = << >>, !.idx = 0]
    /\ returned' = [returned EXCEPT !.scan = << >>, !.self = returned.scan]
    /\ UNCHANGED <<info2_data, i2, meta_data, metadata_path, parent, built, m,
                   meta_data2, m2, bin>>

NextAnalyzer ==
    A_Analyze \/ A_ScanInfo2 \/ A_ListFolders \/ A_ScanCurrent \/ A_ScanOther
        \/ A_Return

\* --- parse calls in progress at the same time ---

\* The name of the second $I file
Meta2Name == <<"$", "I", "C", "D">>

\* A legacy index and two $I files are being parsed, each call on its own
\* file object.
InitConcurrent ==
    /\ info2_data \in {Info2One, Info2Broken, Slice(Info2One, 0, 19)}
    /\ i2 = I2Start
    /\ built \in { Example,
                    Built(<<255, 254, 65>>, B_Sized, B_2020, <<97>>, FALSE, << >>, 0),
                    Built(<<65>>, B_1024, B_Over, <<97>>, TRUE, << >>, 0),
                    Built(<< >>, B_1024, B_15, <<67, 58, 92, 97>>, TRUE, << >>, 3) }
    /\ meta_data = MetaBytes(built)
    /\ metadata_path = <<"$", "I", "A", "B">>
    /\ parent \in { << >>, [n \in {<<"$", "R", "A", "B">>} |-> "file"] }
    /\ m = MStart
    /\ meta_data2 \in { MetaBytes(Example), E_unk.data, E_cut.data,
                         <<65, 65>> \o E_unk.data }
    /\ \E f \in {NoFault, 2} : m2 = [MStart EXCEPT !.fault = f]
    /\ NoAnalyzer

\* M2_Step with the cursor of the two per-file calls in one shared place
M2_Step_shared ==
    /\ m2.pc \notin {"idle", "done"}
    /\ m2' = MStep(meta_data2, m2, Meta2Name, parent)
    /\ m' = IF m.pc \in {"idle", "done"} THEN m ELSE [m EXCEPT !.pos = m2'.pos]
    /\ UNCHANGED <<info2_data, i2, meta_data, metadata_path, parent, built,
                   meta_data2, bin, an, returned>>

\* One step (lines 63-136) of the second parse_metadata_file call.  Its
\* state is in its own frame and its cursor in its own file object: no
\* other call's state changes.
M2_Step ==
    /\ m2.pc \notin {"idle", "done"}
    /\ m2' = MStep(meta_data2, m2, Meta2Name, parent)
    /\ UNCHANGED <<info2_data, i2, meta_data, metadata_path, parent, built, m,
                   meta_data2, bin, an, returned>>

NextInfo2 == I2_ReadHeader \/ I2_ReadRecord \/ I2_Return

NextMeta == M_Scan \/ M_ReadSize \/ M_ReadTime \/ M_ReadLen \/ M_ReadPath

NextParsers == NextInfo2 \/ NextMeta

NextConcurrent == NextInfo2 \/ NextMeta \/ M2_Step

Next == NextInfo2 \/ NextMeta \/ M2_Step \/ NextAnalyzer

SpecInfo2 == InitInfo2 /\ [][NextInfo2]_vars

SpecMeta == InitMeta /\ [][NextMeta]_vars

\* Either parser, called alone
SpecParsers == InitParsers /\ [][NextParsers]_vars

SpecAnalyzer == InitAnalyzer /\ [][NextAnalyzer]_vars

SpecConcurrent == InitConcurrent /\ [][NextConcurrent]_vars

\* A parse_metadata_file call runs on: a scan loop that can take an
\* iteration takes it (the code is synchronous and nothing suspends it).
SpecMetaFair == SpecMeta /\ WF_vars(M_Scan)

Init == InitInfo2 \/ InitMeta \/ InitAnalyzer \/ InitConcurrent

Spec == Init /\ [][Next]_vars

\* ------------------------------------------------------------------------
\* Properties
\* ------------------------------------------------------------------------

\* The little-endian value of eight bytes, as limbs
LE64(b) ==
    <<b[1] + 256 * b[2], b[3] + 256 * b[4], b[5] + 256 * b[6], b[7] + 256 * b[8]>>

\* 10 * a + r on 64-bit values (r < 10); the carry out of the top limb is
\* kept in it, so a product past 64 bits equals no 64-bit value.
TimesTenPlus(a, r) ==
    LET s1 == a[1] * 10 + r
        s2 == a[2] * 10 + (s1 \div 65536)
        s3 == a[3] * 10 + (s2 \div 65536)
        s4 == a[4] * 10 + (s3 \div 65536)
    IN  <<s1 % 65536, s2 % 65536, s3 % 65536, s4>>

\* The raw ticks stored for the record parse_metadata_file decoded: the
\* eight bytes at offset 16 from the signature it matched.
MetaRawTicks == LE64(Slice(meta_data, m.sig_pos + 16, m.sig_pos + 24))

MetaReturned == m.pc = "done" /\ m.result.tag = "record"

\* The raw ticks of a legacy record: bytes [8, 16) of its 280 bytes.
Info2RawTicks(rec) == LE64(Slice(rec.record_data, 8, 16))

\* <<raw ticks, delete_time>> of every record a parser has produced.
ReturnedTimes ==
    (IF i2.pc = "idle" THEN {}
     ELSE { <<Info2RawTicks(i2.files_info[j]), i2.files_info[j].delete_time>> :
              j \in 1..Len(i2.files_info) })
    \cup
    (IF m.pc = "done" /\ m.result.tag = "record"
     THEN { <<MetaRawTicks, m.result.delete_time>> }
     ELSE {})

\* C1 as stated: for every raw tick value t > 0 the delete_time of a returned
\* record is the instant 1601-01-01T00:00:00 + t * 100 ns exactly, i.e. ten
\* times its microsecond count is t.
C1_ExactInstant ==
    \A p \in ReturnedTimes :
        p[1] # Zero64 =>
            /\ p[2].tag = "datetime"
            /\ TimesTenPlus(p[2].micros, 0) = p[1]

\* C1 amended: for every raw tick value t > 0 the delete_time of a returned
\* record is 1601-01-01T00:00:00 + floor(t / 10) microseconds: the instant
\* of t truncated to whole microseconds, at most 9 ticks before it.
C1_TruncatedInstant ==
    \A p \in ReturnedTimes :
        p[1] # Zero64 =>
            /\ p[2].tag = "datetime"
            /\ \E r \in 0..9 : TimesTenPlus(p[2].micros, r) = p[1]

\* A per-file record decoded from 15 ticks carries the instant of 1 us.
C1_Witness ==
    /\ MetaReturned
    /\ MetaRawTicks = <<15, 0, 0, 0>>
    /\ m.result.delete_time = Datetime(<<1, 0, 0, 0>>)

\* C2: in every returned record delete_time is None exactly when the stored
\* raw tick value is 0, and is a datetime otherwise.
C2_NoneIffZero ==
    \A p \in ReturnedTimes :
        /\ p[2].tag \in {"None", "datetime"}
        /\ (p[2] = None) <=> (p[1] = Zero64)

\* A legacy record with raw ticks 0 and no delete_time has been decoded, and so
\* has one whose ticks (1) are below one microsecond: it has a delete_time.
C2_Witness ==
    /\ i2.pc = "done"
    /\ \E j \in 1..Len(i2.files_info) :
          /\ Info2RawTicks(i2.files_info[j]) = Zero64
          /\ i2.files_info[j].delete_time = None
    /\ \E j \in 1..Len(i2.files_info) :
          /\ Info2RawTicks(i2.files_info[j]) = <<1, 0, 0, 0>>
          /\ i2.files_info[j].delete_time = Datetime(Zero64)

\* The code units of a name field that precede its first null code unit (all
\* of them when it holds none).
UnitsBeforeNull(field) ==
    LET u == Units(field)
    IN  IF \E k \in 1..Len(u) : u[k] = 0
        THEN LET first == CHOOSE k \in 1..Len(u) :
                              u[k] = 0 /\ \A h \in 1..(k - 1) : u[h] # 0
             IN  [k \in 1..(first - 1) |-> u[k]]
        ELSE u

\* C3 as stated: the original_name of every legacy record is the text of the
\* code units of its 264-byte name field that precede the first null code
\* unit, or of the whole field when it holds none.
C3_NameUpToNullUnit ==
    i2.pc # "idle" =>
        \A j \in 1..Len(i2.files_info) :
            i2.files_info[j].original_name =
                DecodeUnits(UnitsBeforeNull(Slice(i2.files_info[j].record_data, 16, 280)))

\* The well-formed record of a built input, parsed with no leading bytes.
BodyResult == parse_metadata_file(MetaBody(built), metadata_path, parent)

RecordFields(r) ==
    IF r.tag = "record"
    THEN <<r.file_size, r.delete_time, r.original_path, r.original_name>>
    ELSE <<r.tag>>

\* C4 as stated: for the junk bytes FF FE followed by a well-formed record,
\* parse_metadata_file returns the record fields it returns for that record
\* with no leading bytes.
C4_BomThenRecord ==
    (m.pc = "done" /\ built.junk = <<255, 254>> /\ built.cut = 0) =>
        /\ BodyResult.tag = "record"
        /\ RecordFields(m.result) = RecordFields(BodyResult)

IsSignatureAt(data, k) == Slice(data, k, k + 8) = Signature

\* C5 as stated: when no signature begins within 100 bytes of the start of
\* the input, parse_metadata_file returns no record.
C5_ScanBounded ==
    (/\ m.pc = "done"
     /\ \A k \in 0..SearchLimit : ~IsSignatureAt(meta_data, k)) =>
        m.result = None

\* The record count N a legacy index declares: the little-endian u32 of its
\* bytes [4, 8).
DeclaredCount(data) ==
    data[5] + 256 * data[6] + 65536 * data[7] + 16777216 * data[8]

\* The number of whole 280-byte records that follow the 20-byte header.
WholeRecords(data) == (Len(data) - 20) \div 280

ExpectedCount(data) == Min(DeclaredCount(data), WholeRecords(data))

\* The bytes of the i-th record (from 0) of a legacy index
RecordBytes(data, i) == Slice(data, 20 + 280 * i, 20 + 280 * i + 280)

Representable(ticks) == LimbLeq(FloorDiv10(ticks), DatetimeMaxMicros)

\* delete_time is what raw ticks decode to: absent for 0, else the instant
\* of the ticks truncated to whole microseconds.
DecodesTo(ticks, delete_time) ==
    IF ticks = Zero64 THEN delete_time = None
    ELSE /\ delete_time.tag = "datetime"
         /\ \E r \in 0..9 : TimesTenPlus(delete_time.micros, r) = ticks

\* C6: for a legacy index of length >= 20 declaring N records, all of whose
\* tick values are representable, read without an I/O fault,
\* parse_info2_file returns exactly
\* min(N, floor((len - 20) / 280)) records in file order, the i-th decoded
\* from the bytes at offset 20 + 280 i: its size from the first 8 of them and
\* its ticks from the next 8.
C6_RecordsInFileOrder ==
    (/\ i2.pc = "done"
     /\ i2.fault = NoFault
     /\ Len(info2_data) >= 20
     /\ \A i \in 0..(ExpectedCount(info2_data) - 1) :
            Representable(LE64(Slice(RecordBytes(info2_data, i), 8, 16)))) =>
        /\ Len(i2.files_info) = ExpectedCount(info2_data)
        /\ \A i \in 0..(ExpectedCount(info2_data) - 1) :
              LET rec   == i2.files_info[i + 1]
                  bytes == RecordBytes(info2_data, i)
              IN  /\ rec.record_data = bytes
                  /\ rec.file_size = LE64(Slice(bytes, 0, 8))
                  /\ DecodesTo(LE64(Slice(bytes, 8, 16)), rec.delete_time)

\* A header declaring N = 2, one full record and a partial one: exactly one
\* record is returned.
C6_Witness ==
    /\ i2.pc = "done"
    /\ Len(info2_data) = 20 + 280 + 279
    /\ DeclaredCount(info2_data) = 2
    /\ Len(i2.files_info) = 1
    /\ i2.files_info[1].file_size = <<263, 770, 1284, 2310>>

\* C7: parse_info2_file returns an empty list, with no error signalled,
\* whenever fewer than 20 header bytes are available and whenever the header
\* declares N = 0, whatever follows the header (the file opening and reading
\* without an I/O fault).
C7_EmptyResult ==
    (/\ i2.pc = "done"
     /\ i2.fault = NoFault
     /\ \/ Len(info2_data) < 20
        \/ DeclaredCount(info2_data) = 0) =>
        /\ i2.files_info = << >>
        /\ ~i2.error

\* A header declaring N = 0 followed by two full records: nothing is returned.
C7_Witness ==
    /\ i2.pc = "done"
    /\ i2.fault = NoFault
    /\ Len(info2_data) = 20 + 2 * 280
    /\ DeclaredCount(info2_data) = 0
    /\ i2.files_info = << >>
    /\ ~i2.error

IsSeparator(c) == c = Sep \/ c = AltSep

\* A well-formed per-file input: the signature at offset 0, the size, the
\* ticks, L > 0 and at least 2 L bytes of valid UTF-16LE, on a file that
\* opens and reads without an I/O fault.
WellFormed ==
    /\ m.fault = NoFault
    /\ built.junk = << >> /\ built.cut = 0 /\ built.path_len > 0
    /\ \A j \in 1..Len(built.path) : built.path[j] \notin 55296..57343

\* The path a well-formed input encodes, without its trailing null code unit.
EncodedPath ==
    IF ~built.terminated /\ built.path[Len(built.path)] = 0
    THEN [j \in 1..(Len(built.path) - 1) |-> built.path[j]]
    ELSE built.path

\* The part of a text after its last backslash (all of it if it has none).
AfterLastBackslash(p) ==
    IF \E j \in 1..Len(p) : p[j] = Sep
    THEN LET last == CHOOSE j \in 1..Len(p) :
                         p[j] = Sep /\ \A k \in (j + 1)..Len(p) : p[k] # Sep
         IN  [k \in 1..(Len(p) - last) |-> p[last + k]]
    ELSE p

\* A text without its trailing separators.
WithoutTrailingSeparators(p) ==
    IF \E j \in 1..Len(p) : ~IsSeparator(p[j])
    THEN LET last == CHOOSE j \in 1..Len(p) :
                         ~IsSeparator(p[j]) /\ \A k \in (j + 1)..Len(p) : IsSeparator(p[k])
         IN  [k \in 1..last |-> p[k]]
    ELSE << >>

\* The longest suffix of a text that holds no separator.
LastRun(p) ==
    IF \E j \in 1..Len(p) : IsSeparator(p[j])
    THEN LET last == CHOOSE j \in 1..Len(p) :
                         IsSeparator(p[j]) /\ \A k \in (j + 1)..Len(p) : ~IsSeparator(p[k])
         IN  [k \in 1..(Len(p) - last) |-> p[last + k]]
    ELSE p

IsSuffix(a, b) ==
    Len(a) <= Len(b) /\ \A k \in 1..Len(a) : a[k] = b[Len(b) - Len(a) + k]

\* A drive-absolute path: a drive letter, a colon and a separator lead it.
DriveAbsolute(p) ==
    Len(p) >= 3 /\ IsDriveLetter(p[1]) /\ p[2] = Colon /\ IsSeparator(p[3])

\* name is the final component of path by the rules of Windows paths: it
\* holds no separator and ends the path but for trailing separators; for a
\* drive-absolute path it is the last run of characters between separators
\* after the drive, empty if there is none.
IsFinalComponent(name, path) ==
    /\ \A k \in 1..Len(name) : ~IsSeparator(name[k])
    /\ IsSuffix(name, WithoutTrailingSeparators(path))
    /\ DriveAbsolute(path) =>
           name = LastRun(WithoutTrailingSeparators(Slice(path, 2, Len(path))))

C8_NameAfterLastBackslash ==
    (m.pc = "done" /\ WellFormed /\ m.result.tag = "record") =>
        m.result.original_name = AfterLastBackslash(m.result.original_path)

C9_PathRoundTrip ==
    (/\ m.pc = "done"
     /\ WellFormed
     /\ built.terminated
     /\ \A j \in 1..Len(built.path) : built.path[j] # 0
     /\ Representable(LE64(built.ticks))) =>
        /\ m.result.tag = "record"
        /\ m.result.original_path = built.path

\* A path with a character outside the basic plane (a surrogate pair when
\* encoded) has made the round trip.
C9_Witness ==
    /\ m.pc = "done"
    /\ WellFormed
    /\ built.terminated
    /\ built.path = <<67, 58, 92, 128512>>
    /\ built.path_len = 6
    /\ m.result.tag = "record"
    /\ m.result.original_path = <<67, 58, 92, 128512>>

\* The fields of a complete record
RecordKeys ==
    {"tag", "original_name", "original_path", "file_size", "delete_time",
     "recycled_name", "actual_file_path", "can_read_content", "metadata_file"}

\* C10: parse_metadata_file returns None, never a partial record, whenever
\* the input ends before the signature is found or supplies fewer than 8
\* bytes for the size, 8 for the ticks or 4 for the path length: a record is
\* returned only for a signature the scan matched with at least 20 bytes
\* after it, and only None for an input in which no signature has them.
C10_ShortReadNoRecord ==
    m.pc = "done" =>
        /\ (\A k \in 0..Len(meta_data) :
               IsSignatureAt(meta_data, k) => Len(meta_data) < k + 28)
              => m.result = None
        /\ (m.sig_pos = -1 \/ Len(meta_data) < m.sig_pos + 28) => m.result = None
        /\ m.sig_pos # -1 => IsSignatureAt(meta_data, m.sig_pos)
        /\ m.result # None => DOMAIN m.result = RecordKeys

\* An input cut one byte short of its path length field has been refused.
C10_Witness ==
    /\ m.pc = "done"
    /\ m.sig_pos = 0
    /\ Len(meta_data) = 27
    /\ m.result = None
    /\ ~m.error

\* The per-file input, once its signature is matched at m.sig_pos: the
\* bytes of its size, ticks and length fields and the bytes after them.
SizeField == Slice(meta_data, m.sig_pos + 8, m.sig_pos + 16)

TicksField == Slice(meta_data, m.sig_pos + 16, m.sig_pos + 24)

LenField == Slice(meta_data, m.sig_pos + 24, m.sig_pos + 28)

\* The value of the length field (its two high bytes are 0 in every input)
StoredLen == LenField[1] + 256 * LenField[2]

PathBytesLeft == Len(meta_data) - (m.sig_pos + 28)

\* The signature, the size, the ticks and the length have all been read:
\* the signature was matched, 20 bytes follow it, no read raised and the
\* ticks were converted (the length is read only after the conversion).
FieldsRead ==
    /\ m.pc = "done"
    /\ m.fault = NoFault
    /\ m.sig_pos >= 0
    /\ PathBytesLeft >= 0
    /\ Representable(LE64(TicksField))

\* C11: when the signature, the size, the ticks and a length L > 0 have all
\* been read and fewer than 2 L path bytes remain, parse_metadata_file still
\* returns a record: its original_path and original_name are both "Unknown"
\* and its file_size and delete_time are the values decoded from the size
\* and ticks fields.
C11_ShortPathUnknown ==
    (FieldsRead /\ StoredLen > 0 /\ PathBytesLeft < 2 * StoredLen) =>
        /\ m.result.tag = "record"
        /\ m.result.original_path = Unknown
        /\ m.result.original_name = Unknown
        /\ m.result.file_size = LE64(SizeField)
        /\ DecodesTo(LE64(TicksField), m.result.delete_time)

\* The input of size 1024 and L = 5 has lost the last 3 of its 10 path
\* bytes; the record returned has the size and the time, and no path.
C11_Witness ==
    /\ m.pc = "done"
    /\ m.fault = NoFault
    /\ built.junk = << >>
    /\ built.cut = 3
    /\ StoredLen = 5
    /\ PathBytesLeft = 7
    /\ m.result.tag = "record"
    /\ m.result.original_path = Unknown
    /\ m.result.original_name = Unknown
    /\ m.result.file_size = <<1024, 0, 0, 0>>
    /\ m.result.delete_time # None

\* C12: when the length field L is 0, parse_metadata_file returns a record
\* whose original_path and original_name are both "Unknown", and it reads no
\* path bytes: the cursor stays right after the length field, whatever
\* follows it.
C12_ZeroLengthUnknown ==
    (FieldsRead /\ StoredLen = 0) =>
        /\ m.result.tag = "record"
        /\ m.result.original_path = Unknown
        /\ m.result.original_name = Unknown
        /\ m.pos = m.sig_pos + 28

\* An input with L = 0 followed by the ten bytes of "C:\a" and a null code
\* unit has been parsed to a record without a path.
C12_Witness ==
    /\ m.pc = "done"
    /\ m.fault = NoFault
    /\ m.sig_pos = 0
    /\ PathBytesLeft = 10
    /\ StoredLen = 0
    /\ m.pos = 28
    /\ m.result.tag = "record"
    /\ m.result.original_path = Unknown
    /\ m.result.original_name = Unknown
    /\ m.result.file_size = <<1024, 0, 0, 0>>

\* The content file paired with the metadata file "$I" + rest: "$R" + rest.
PairedName == <<"$", "R">> \o Tail(Tail(metadata_path))

PairedIsFile == PairedName \in DOMAIN parent /\ parent[PairedName] = "file"

\* C13: in every record parse_metadata_file returns, can_read_content is
\* true exactly when the paired content file exists and is an ordinary file
\* (false when it is missing and when it is a directory), and recycled_name
\* is the metadata file's own name.
C13_ContentFlag ==
    MetaReturned =>
        /\ m.result.can_read_content = PairedIsFile
        /\ m.result.recycled_name = metadata_path

\* C13 for the metadata files whose name holds "$I" only at its start
C13_ContentFlagSingle ==
    (MetaReturned /\ replace_I_R(metadata_path) = PairedName) =>
        /\ m.result.can_read_content = PairedIsFile
        /\ m.result.recycled_name = metadata_path

\* C14: any failure raised while opening, reading or decoding a legacy index
\* aborts the whole parse and parse_info2_file returns an empty list: no
\* record decoded before the failure is returned.
C14_FailureGivesEmpty ==
    (i2.pc = "done" /\ i2.error) => i2.files_info = << >>

\* C14 for the failures of open() and of the read of the header
C14_EarlyFailureGivesEmpty ==
    (i2.pc = "done" /\ i2.error /\ i2.reads = 0) => i2.files_info = << >>

\* The second half of a surrogate pair
IsPairLow(u, j) ==
    IsLowSurrogate(u[j]) /\ j > 1 /\ IsHighSurrogate(u[j - 1])

\* The text of code units when every malformed unit (a surrogate that is
\* no part of a pair) gives the fallback character U+FFFD.
DecodeReplace(u) ==
    LET keep == SelectSeq([j \in 1..Len(u) |-> j], LAMBDA j : ~IsPairLow(u, j))
    IN  [i \in 1..Len(keep) |->
            IF StartsChar(u, keep[i]) THEN CharAt(u, keep[i]) ELSE 65533]

\* A name field whose first zero byte starts its first null code unit (or
\* that has no zero byte): the field is then cut where its name ends.
NameCutAtNullUnit(field) ==
    \/ FindZero(field) = -1
    \/ FindZero(field) = 2 * Len(UnitsBeforeNull(field))

\* The code units of the path field of a per-file input, without the null
\* code unit in last place
StoredPathUnits ==
    LET u == Units(Slice(meta_data, m.sig_pos + 28, m.sig_pos + 28 + 2 * StoredLen))
    IN  IF u[Len(u)] = 0 THEN [j \in 1..(Len(u) - 1) |-> u[j]] ELSE u

\* C15 as stated: a malformed code unit in a name or path field never aborts
\* the decode and is replaced in the text by a fallback character rather
\* than dropped: the decoded text has one character for every well-formed
\* character and one fallback character for every malformed unit.
C15_MalformedReplaced ==
    /\ i2.pc # "idle" =>
          \A j \in 1..Len(i2.files_info) :
              LET field == Slice(i2.files_info[j].record_data, 16, 280)
              IN  NameCutAtNullUnit(field) =>
                      i2.files_info[j].original_name
                          = DecodeReplace(UnitsBeforeNull(field))
    /\ (FieldsRead /\ StoredLen > 0 /\ PathBytesLeft >= 2 * StoredLen) =>
          /\ m.result.tag = "record"
          /\ m.result.original_path = DecodeReplace(StoredPathUnits)

\* C15, the part that holds: a malformed code unit never aborts the decode,
\* and the well-formed characters around it are kept in order (the malformed
\* unit itself is dropped).
C15_MalformedDropped ==
    /\ i2.pc # "idle" =>
          \A j \in 1..Len(i2.files_info) :
              LET field == Slice(i2.files_info[j].record_data, 16, 280)
              IN  NameCutAtNullUnit(field) =>
                      i2.files_info[j].original_name
                          = SelectSeq(DecodeReplace(UnitsBeforeNull(field)),
                                      LAMBDA c : c # 65533)
    /\ (FieldsRead /\ StoredLen > 0 /\ PathBytesLeft >= 2 * StoredLen) =>
          /\ m.result.tag = "record"
          /\ m.result.original_path
                = SelectSeq(DecodeReplace(StoredPathUnits), LAMBDA c : c # 65533)

\* The lists of records the analyzer holds (the list of the scan in
\* progress and self.files_info), each with what the parsers returned for
\* its records.
AnalyzerLists ==
    IF an.pc = "idle" THEN {}
    ELSE {<<an.scan, returned.scan>>, <<an.files_info, returned.self>>}

\* C16 as stated: across the operations of the analyzer, every record has
\* exactly the fields and the values the parser returned it with.
C16_NeverMutated ==
    \A ls \in AnalyzerLists :
        /\ Len(ls[1]) = Len(ls[2])
        /\ \A j \in 1..Len(ls[1]) : ls[1][j] = ls[2][j]

\* C16 amended: across the operations of the analyzer, every field a parser
\* returned in a record keeps its value and no field is removed; a record
\* of parse_info2_file stays exactly as returned, and a record of
\* parse_metadata_file gains two fields, sid_folder and sid_display, and
\* no other.
C16_OnlySidFieldsAdded ==
    \A ls \in AnalyzerLists :
        /\ Len(ls[1]) = Len(ls[2])
        /\ \A j \in 1..Len(ls[1]) :
              LET record == ls[1][j]
                  parsed == ls[2][j]
              IN  /\ \A k \in DOMAIN parsed :
                        k \in DOMAIN record /\ record[k] = parsed[k]
                  /\ IF "metadata_file" \in DOMAIN parsed
                     THEN DOMAIN record
                              = DOMAIN parsed \cup {"sid_folder", "sid_display"}
                     ELSE DOMAIN record = DOMAIN parsed

\* analyze() has returned a legacy record followed by the record of "$IAB"
\* in folder S-1: the first as parsed, the second with the two fields more.
C16_Witness ==
    /\ an.pc = "ready"
    /\ an.calls = 1
    /\ Len(an.files_info) = 2
    /\ an.files_info[1] = returned.self[1]
    /\ "record_data" \in DOMAIN an.files_info[1]
    /\ "sid_folder" \notin DOMAIN returned.self[2]
    /\ an.files_info[2].sid_folder = SidA
    /\ an.files_info[2].original_name = <<97>>
    /\ an.files_info[2].recycled_name = <<"$", "I", "A", "B">>

\* C17: in every interleaving of the steps of parse calls in progress at
\* the same time, each on its own file, every call returns what it returns
\* when it runs alone on that file (and meets the same I/O fault, if any).
C17_NoInterference ==
    /\ i2.pc = "done" =>
          i2.files_info
              = I2Run(info2_data, [I2Start EXCEPT !.fault = i2.fault]).files_info
    /\ m.pc = "done" =>
          m.result = MRun(meta_data, [MStart EXCEPT !.fault = m.fault],
                          metadata_path, parent).result
    /\ m2.pc = "done" =>
          m2.result = MRun(meta_data2, [MStart EXCEPT !.fault = m2.fault],
                           Meta2Name, parent).result

\* The three calls, their steps interleaved, have all returned: the legacy
\* call one record, the per-file calls the record of "C:\a" and, after two
\* bytes of junk, a record of unknown path.
C17_Witness ==
    /\ i2.pc = "done" /\ m.pc = "done" /\ m2.pc = "done"
    /\ Len(i2.files_info) = 1
    /\ m.result.tag = "record"
    /\ m.result.original_path = <<67, 58, 92, 97>>
    /\ m2.result.tag = "record"
    /\ m2.result.original_path = Unknown
    /\ m2.sig_pos = 2
    /\ m2.fault = NoFault

\* What parse_info2_file appends: a dictionary of four fields, its
\* delete_time a datetime or None
IsLegacyRecord(r) ==
    /\ DOMAIN r = {"original_name", "file_size", "delete_time", "record_data"}
    /\ r.delete_time.tag \in {"None", "datetime"}

\* What parse_metadata_file returns: None or a complete record
IsRecordOrNone(r) ==
    \/ r = None
    \/ /\ DOMAIN r = RecordKeys
       /\ r.tag = "record"
       /\ r.delete_time.tag \in {"None", "datetime"}

\* C18: neither parser lets a fault through to its caller.  Whatever the
\* bytes and the length of the input, when the file cannot be opened, when
\* a read raises and when a read comes back short at any field,
\* parse_info2_file returns a list of records and parse_metadata_file
\* returns a record or None; a call that has not returned is at one of its
\* read steps.
C18_NoFaultPropagates ==
    /\ i2.pc = "done" =>
          \A j \in 1..Len(i2.files_info) : IsLegacyRecord(i2.files_info[j])
    /\ m.pc = "done" => IsRecordOrNone(m.result)
    /\ i2.pc \in {"idle", "header", "loop", "done"}
    /\ m.pc \in {"idle", "scan", "size", "time", "len", "path", "done"}

\* open() raised on the $I file: the call has returned None without a read.
C18_Witness ==
    /\ m.pc = "done"
    /\ m.fault = 0
    /\ m.reads = 0
    /\ m.error
    /\ m.result = None

\* The eight bytes the scan reads at its cursor (fewer at the end of input)
Window == Read(meta_data, m.pos, 8)

\* One iteration of the scan loop, as C19 describes it
ScanIteration ==
    \/ /\ m'.pc = "scan"
       /\ m'.pos = IF StartsWithBOM(Window) THEN m.pos + 8 ELSE m.pos + 1
       /\ Window # Signature
    \/ /\ m'.pc = "size"
       /\ Window = Signature
       /\ m'.sig_pos = m.pos
    \/ /\ m'.pc = "done"
       /\ m'.result = None
       /\ Len(Window) < 8 \/ m'.error

\* C19: the signature scan terminates on every finite input.  Every
\* iteration that stays in the loop moves the cursor forward, by 8 after a
\* window that starts with FF FE and by 1 after any other window that is
\* not the signature; the loop is left by finding the signature or by a
\* read of fewer than 8 bytes (or one that raises), which returns None; and
\* the loop is always left.
C19_ScanTerminates ==
    /\ [][m.pc = "scan" => ScanIteration]_vars
    /\ <>(m.pc # "scan")

\* The scan of a 41-byte input with junk 41 FF FE has moved by 1, then by 8
\* over the window at offset 1, then byte by byte to the end of the input,
\* and returned None at the 28th read.
C19_Witness ==
    /\ m.pc = "done"
    /\ built.junk = <<65, 255, 254>>
    /\ Len(meta_data) = 41
    /\ m.sig_pos = -1
    /\ m.reads = 28
    /\ m.pos = 41
    /\ m.result = None

\* No FF FE pair lies within the first k bytes of the input.
NoBomBefore(k) ==
    \A j \in 1..(k - 1) : ~(meta_data[j] = 255 /\ meta_data[j + 1] = 254)

\* The signature first occurs at offset k.
FirstSignatureAt(k) ==
    /\ IsSignatureAt(meta_data, k)
    /\ \A j \in 0..(k - 1) : ~IsSignatureAt(meta_data, j)

\* C20: the scan examines the 8-byte windows at offsets 0, 1, 2, ...  For
\* an input whose first signature is at an offset k within the scan bound,
\* with no FF FE pair in the junk before it, the parser matches the
\* signature at k and decodes the size from the 8 bytes at k + 8, the ticks
\* from the 8 bytes at k + 16 and L from the 4 bytes at k + 24, as far as
\* the input (read without an I/O fault) and the ticks let it go.
C20_WindowsAtEveryOffset ==
    \A k \in 0..SearchLimit :
        (/\ m.pc = "done"
         /\ m.fault = NoFault
         /\ FirstSignatureAt(k)
         /\ NoBomBefore(k)) =>
            /\ m.sig_pos = k
            /\ Len(meta_data) >= k + 16 => m.file_size = LE64(SizeField)
            /\ Len(meta_data) >= k + 24 => m.delete_time = LE64(TicksField)
            /\ (Len(meta_data) >= k + 28 /\ Representable(LE64(TicksField))) =>
                  /\ m.path_len = StoredLen
                  /\ m.result.tag = "record"
                  /\ m.result.file_size = LE64(SizeField)
                  /\ DecodesTo(LE64(TicksField), m.result.delete_time)

\* After three junk bytes the signature was matched at offset 3; the size
\* 1024 came from offset 11, the 15 ticks from offset 19 and L = 5 from
\* offset 27.
C20_Witness ==
    /\ m.pc = "done"
    /\ m.fault = NoFault
    /\ built.junk = <<65, 65, 65>>
    /\ FirstSignatureAt(3)
    /\ m.sig_pos = 3
    /\ Slice(meta_data, 11, 19) = B_1024
    /\ m.result.tag = "record"
    /\ m.result.file_size = <<1024, 0, 0, 0>>
    /\ m.delete_time = <<15, 0, 0, 0>>
    /\ m.path_len = 5

\* The path field was read whole: L > 0 and 2 L bytes follow the length.
PathRead == FieldsRead /\ StoredLen > 0 /\ PathBytesLeft >= 2 * StoredLen

\* The code units of the whole path field
RawPathUnits ==
    Units(Slice(meta_data, m.sig_pos + 28, m.sig_pos + 28 + 2 * StoredLen))

\* Some code unit is malformed: a surrogate that is no part of a pair.
Malformed(u) == \E j \in 1..Len(u) : ~StartsChar(u, j) /\ ~IsPairLow(u, j)

\* C21 as stated: the path rule drops exactly one trailing null code unit.
\* When the 2 L path bytes end with 00 00 the decoded original_path has
\* L - 1 code units (so of two or more trailing null units all but the last
\* remain), and when they do not, it has all L code units.
C21_DropsOneNull ==
    PathRead =>
        /\ m.result.tag = "record"
        /\ Len(TextUnits(m.result.original_path))
             = IF RawPathUnits[StoredLen] = 0 THEN StoredLen - 1 ELSE StoredLen

\* C21 for path fields without malformed code units: original_path is the
\* text of the L code units, less one null code unit in last place.
C21_DropsOneNullValid ==
    (PathRead /\ ~Malformed(RawPathUnits)) =>
        /\ m.result.tag = "record"
        /\ TextUnits(m.result.original_path) = StoredPathUnits
        /\ Len(StoredPathUnits)
             = IF RawPathUnits[StoredLen] = 0 THEN StoredLen - 1 ELSE StoredLen

\* The raw ticks of the i-th record (from 0) of the legacy index
Info2TicksAt(i) == LE64(Slice(RecordBytes(info2_data, i), 8, 16))

\* C22: timestamp decoding never overflows or wraps.  Every delete_time
\* returned is the instant of ticks the calendar type can hold; for ticks
\* past its maximum parse_metadata_file returns no record, and
\* parse_info2_file stops at that record: it returns the records before the
\* first such record and none from it on.
C22_NoWrappedTime ==
    /\ \A p \in ReturnedTimes : Representable(p[1]) /\ DecodesTo(p[1], p[2])
    /\ (/\ m.pc = "done"
        /\ m.sig_pos >= 0
        /\ Len(meta_data) >= m.sig_pos + 24
        /\ ~Representable(LE64(TicksField))) => m.result = None
    /\ (i2.pc = "done" /\ i2.fault = NoFault /\ Len(info2_data) >= 20) =>
          \A i \in 0..(ExpectedCount(info2_data) - 1) :
              (/\ ~Representable(Info2TicksAt(i))
               /\ \A h \in 0..(i - 1) : Representable(Info2TicksAt(h))) =>
                  /\ Len(i2.files_info) = i
                  /\ i2.error

\* A legacy index of two records, the second with ticks one past
\* 9999-12-31T23:59:59.9999999: the parse stopped there with one record.
C22_Witness ==
    /\ i2.pc = "done"
    /\ i2.fault = NoFault
    /\ Len(info2_data) = 20 + 2 * 280
    /\ DeclaredCount(info2_data) = 2
    /\ Slice(info2_data, 20 + 280 + 8, 20 + 280 + 16) = B_Over
    /\ Len(i2.files_info) = 1
    /\ i2.files_info[1].delete_time.tag = "datetime"
    /\ i2.error

\* ------------------------------------------------------------------------
\* C23: the legacy parser's result does not depend on header bytes [0,4)
\* and [8,20)
\* ------------------------------------------------------------------------

\* The input with header bytes [0,4) and [8,20) replaced, bytes [4,8) and
\* everything from offset 20 on kept.
Reheader(data, first4, reserved) ==
    first4 \o Slice(data, 4, 8) \o reserved \o Slice(data, 20, Len(data))

AltFirst4 == { <<0, 0, 0, 0>>, <<5, 0, 0, 0>>, <<255, 255, 255, 127>> }

AltReserved == { Rep(0, 12), Rep(255, 12), <<1, 2, 3, 4, 5, 6, 7, 8, 9, 10, 11, 12>> }

\* C23: two legacy index files that agree on header bytes [4,8) and on every
\* byte from offset 20 on give the same list of records, whatever their
\* header bytes [0,4) and [8,20) are.
C23_HeaderIndependent ==
    (i2.pc = "done" /\ i2.fault = NoFault /\ Len(info2_data) >= 20) =>
        \A v \in AltFirst4, r \in AltReserved :
            parse_info2_file(Reheader(info2_data, v, r)) = i2.files_info

\* A version-5 index with two decoded records, compared with re-headered ones.
C23_Witness ==
    /\ i2.pc = "done"
    /\ i2.fault = NoFault
    /\ Len(info2_data) >= 20
    /\ Slice(info2_data, 0, 4) = <<5, 0, 0, 0>>
    /\ Len(i2.files_info) = 2
    /\ Reheader(info2_data, <<0, 0, 0, 0>>, Rep(255, 12)) # info2_data

\* ------------------------------------------------------------------------
\* C24: the data-model fields of every record
\* ------------------------------------------------------------------------

DataModelKeys == {"original_name", "original_path", "file_size", "delete_time"}

\* C24: every record returned by either parser carries original_name,
\* original_path, file_size and delete_time; in particular every legacy record
\* of parse_info2_file has an original_path.
C24_AllDataModelFields ==
    /\ (i2.pc = "done" =>
           \A j \in 1..Len(i2.files_info) :
               DataModelKeys \subseteq DOMAIN i2.files_info[j])
    /\ (MetaReturned => DataModelKeys \subseteq DOMAIN m.result)

\* C24 without original_path for the legacy records
C24_LegacyFieldsButPath ==
    /\ (i2.pc = "done" =>
           \A j \in 1..Len(i2.files_info) :
               /\ (DataModelKeys \ {"original_path"}) \subseteq DOMAIN i2.files_info[j]
               /\ "original_path" \notin DOMAIN i2.files_info[j])
    /\ (MetaReturned => DataModelKeys \subseteq DOMAIN m.result)

\* ------------------------------------------------------------------------
\* C25: actual_file_path and can_read_content
\* ------------------------------------------------------------------------

PairedExists == PairedName \in DOMAIN parent

\* C25: in every record parse_metadata_file returns, can_read_content implies
\* that actual_file_path is not None, and actual_file_path is not None exactly
\* when the paired path exists (also when it is a directory, and then
\* can_read_content is false).
C25_PathPresence ==
    MetaReturned =>
        /\ m.result.can_read_content => m.result.actual_file_path # None
        /\ (m.result.actual_file_path # None) = PairedExists
        /\ (PairedExists /\ parent[PairedName] = "dir") => ~m.result.can_read_content

\* C25 for the metadata files whose name holds "$I" only at its start; the
\* implication between the two fields holds for every name.
C25_PathPresenceSingle ==
    MetaReturned =>
        /\ m.result.can_read_content => m.result.actual_file_path # None
        /\ replace_I_R(metadata_path) = PairedName =>
              /\ (m.result.actual_file_path # None) = PairedExists
              /\ (PairedExists /\ parent[PairedName] = "dir") => ~m.result.can_read_content

\* ------------------------------------------------------------------------
\* C26: the name of the paired content file
\* ------------------------------------------------------------------------

\* C26: the content file parse_metadata_file checks is named as the metadata
\* file with only its leading "$I" replaced by "$R"; the characters after the
\* prefix are unchanged, also when they contain "$I" themselves.
C26_OnlyPrefixReplaced ==
    MetaReturned =>
        /\ m.result.actual_file_path # None =>
              m.result.actual_file_path.name = PairedName
        /\ PairedExists => m.result.actual_file_path # None

\* C26 for the names with no "$I" after the prefix
C26_OnlyPrefixReplacedSingle ==
    (MetaReturned /\ replace_I_R(metadata_path) = PairedName) =>
        /\ m.result.actual_file_path # None =>
              m.result.actual_file_path.name = PairedName
        /\ PairedExists => m.result.actual_file_path # None

\* ------------------------------------------------------------------------
\* C27: the order of one scan
\* ------------------------------------------------------------------------

\* The SID folders of the recycle bin, in directory order
SidFolderNames ==
    LET dirs == SelectSeq(bin.items,
                    LAMBDA item : item.kind = "dir" /\ StartsWith(item.name, "S", "-"))
    IN  [j \in 1..Len(dirs) |-> dirs[j].name]

OtherFolderNames ==
    SelectSeq(SidFolderNames, LAMBDA n : n # an.current_user_sid)

\* What one analyze() call is to scan, in order
ExpectedOrder ==
    (IF bin.has_info2 THEN <<Info2Name>> ELSE << >>)
        \o (IF KnowsCurrentUser(an) /\ ItemsNamed(bin, an.current_user_sid) # << >>
            THEN <<an.current_user_sid>> ELSE << >>)
        \o OtherFolderNames

IsPrefix(s, t) == Len(s) <= Len(t) /\ \A j \in 1..Len(s) : s[j] = t[j]

Occurrences(s, x) == Cardinality({ j \in 1..Len(s) : s[j] = x })

ScanCompleted == an.pc = "ready" /\ an.calls > 0 /\ bin.exists

\* C27: within one analyze() call the legacy index comes first, then the
\* current user's SID folder (when the SID is known and the folder exists),
\* then the other SID folders; once the call has returned every SID folder
\* has been scanned exactly once, the current user's folder is not scanned
\* again in the second pass, and no $I file has contributed two records.
C27_ScanOrder ==
    /\ an.pc # "idle" => IsPrefix(returned.order, ExpectedOrder)
    /\ ScanCompleted =>
          /\ returned.order = ExpectedOrder
          /\ \A j \in 1..Len(SidFolderNames) :
                Occurrences(returned.order, SidFolderNames[j]) = 1
          /\ Occurrences(returned.order, an.current_user_sid) <= 1
          /\ \A j, k \in 1..Len(an.files_info) :
                (j < k /\ "sid_folder" \in DOMAIN an.files_info[j]
                       /\ "sid_folder" \in DOMAIN an.files_info[k])
                    => <<an.files_info[j].sid_folder, an.files_info[j].metadata_file>>
                           # <<an.files_info[k].sid_folder, an.files_info[k].metadata_file>>

\* The current user's folder is listed second in the bin and was scanned
\* first, after the legacy index, and once.
C27_Witness ==
    /\ ScanCompleted
    /\ bin.has_info2
    /\ an.current_user_sid = SidA
    /\ SidFolderNames = <<SidB, SidA>>
    /\ returned.order = <<Info2Name, SidA, SidB>>
    /\ Len(an.files_info) >= 3

\* ------------------------------------------------------------------------
\* C28: analyze() does not accumulate
\* ------------------------------------------------------------------------

\* The records one _scan_sid_folder call on the item named name adds to an
\* empty list, with the display names the analyzer has cached
FolderRecords(name) ==
    scan_sid_folder([an EXCEPT !.scan = << >>], << >>, ItemsNamed(bin, name)[1],
                    [username |-> << >>, description |-> << >>])[1].scan

RECURSIVE FoldersRecords(_, _)
FoldersRecords(names, k) ==
    IF k > Len(names) THEN << >>
    ELSE (IF names[k] = Info2Name THEN parse_info2_file(bin.info2)
          ELSE FolderRecords(names[k]))
         \o FoldersRecords(names, k + 1)

\* The list of one scan of the recycle bin
OneScan == IF bin.exists THEN FoldersRecords(ExpectedOrder, 1) ELSE << >>

\* C28: after any sequence of analyze() calls self.files_info is the result
\* of the most recent scan only: it is the list of one scan of the recycle
\* bin, and a second call on the unchanged bin leaves a list of the same
\* length and content as the first.
C28_NoAccumulation ==
    /\ [](an.pc = "ready" => an.files_info = IF an.calls > 0 THEN OneScan ELSE << >>)
    /\ [][(an.pc # "idle" /\ an'.pc = "ready" /\ an'.calls >= 2)
              => an'.files_info = an.files_info]_vars

\* analyze() has returned twice on a bin that gives three records.
C28_Witness ==
    /\ an.pc = "ready"
    /\ an.calls = 2
    /\ bin.has_info2
    /\ Len(an.files_info) = 3
    /\ Len(returned.order) = 3

\* ------------------------------------------------------------------------
\* C29: the cache of display names
\* ------------------------------------------------------------------------

\* The records of the analyzer's lists that come from a SID folder
AnnotatedRecords ==
    { r \in { an.files_info[j] : j \in 1..Len(an.files_info) }
              \cup { an.scan[j] : j \in 1..Len(an.scan) } :
        "sid_folder" \in DOMAIN r }

\* C29: over any sequence of _get_sid_display_name calls on one analyzer,
\* sid.get_sid_info is invoked at most once for each SID string (exactly once
\* for the cached ones), an entry of sid_cache is never changed or removed,
\* and every call for one SID gives the same display name: every record
\* carries the name cached for its folder.
C29_CacheStable ==
    /\ [](an.pc # "idle" =>
            /\ \A s \in SidNames :
                  an.lookups[s] = IF s \in DOMAIN an.sid_cache THEN 1 ELSE 0
            /\ \A r \in AnnotatedRecords :
                  /\ r.sid_folder \in DOMAIN an.sid_cache
                  /\ r.sid_display = an.sid_cache[r.sid_folder])
    /\ [][an.pc # "idle" =>
            \A s \in DOMAIN an.sid_cache :
                s \in DOMAIN an'.sid_cache /\ an'.sid_cache[s] = an.sid_cache[s]]_vars

\* The current user's name has been asked for in two scans, and sid.get_sid_info
\* once.
C29_Witness ==
    /\ an.pc = "ready"
    /\ an.calls = 2
    /\ an.current_user_sid = SidA
    /\ an.lookups[SidA] = 1
    /\ an.lookups[SidB] = 1
    /\ \E r \in AnnotatedRecords :
          r.sid_folder = SidA /\ r.sid_display.username = <<"u">>

\* ------------------------------------------------------------------------
\* C30: failures in the folder scan
\* ------------------------------------------------------------------------

\* The $I files of an item that parse_metadata_file gives a record for, as
\* positions in the item's listing; none when the item cannot be listed
ParsedEntries(item) ==
    IF item.kind # "dir" \/ item.fault THEN {}
    ELSE { j \in 1..Len(item.entries) :
             /\ item.entries[j].kind = "file"
             /\ StartsWith(item.entries[j].name, "$", "I")
             /\ parse_metadata_file(item.entries[j].data, item.entries[j].name,
                                    DirOf(item)) # None }

\* An item of the recycle bin cannot be scanned
Unscannable(item) == item.kind # "dir" \/ item.fault

\* A scan is in progress before and after the step
ScanStep ==
    /\ an.pc \in {"info2", "list", "current", "others"}
    /\ an'.pc \in {"info2", "list", "current", "others"}

\* The step is one call of _scan_sid_folder
FolderStep ==
    /\ ScanStep
    /\ Len(returned'.order) = Len(returned.order) + 1
    /\ returned'.order[Len(returned'.order)] # Info2Name

\* C30: in the folder scan a $I file that yields no record adds nothing; an
\* exception while scanning one SID folder removes none of the records
\* collected so far and does not keep the remaining SID folders from being
\* scanned; every record added from a folder carries that folder's name as
\* sid_folder.
C30_FailureIsolation ==
    /\ [][ScanStep => IsPrefix(an.scan, an'.scan)]_vars
    /\ [][FolderStep =>
            LET name == returned'.order[Len(returned'.order)]
                item == ItemsNamed(bin, name)[1]
            IN  /\ Len(an'.scan) = Len(an.scan) + Cardinality(ParsedEntries(item))
                /\ \A j \in (Len(an.scan) + 1)..Len(an'.scan) :
                      /\ an'.scan[j].sid_folder = name
                      /\ \E k \in ParsedEntries(item) :
                            an'.scan[j].metadata_file = item.entries[k].name]_vars
    /\ [](ScanCompleted =>
            /\ \A j \in 1..Len(SidFolderNames) :
                  Occurrences(returned.order, SidFolderNames[j]) = 1
            /\ Len(an.files_info)
                  = (IF bin.has_info2 THEN Len(parse_info2_file(bin.info2)) ELSE 0)
                    + Cardinality(UNION {
                          { <<i, k>> : k \in ParsedEntries(bin.items[i]) } :
                              i \in { h \in 1..Len(bin.items) :
                                        StartsWith(bin.items[h].name, "S", "-") } }))

\* The first SID folder could not be listed; the record of the legacy index
\* is kept and the second folder, whose first $I file is cut short, has
\* given its one record.
C30_Witness ==
    /\ ScanCompleted
    /\ bin.has_info2
    /\ Len(bin.items) = 2
    /\ bin.items[1].fault
    /\ bin.items[2].entries = <<E_cut, E_rec>>
    /\ returned.order = <<Info2Name, bin.items[1].name, bin.items[2].name>>
    /\ Len(an.files_info) = 2
    /\ "sid_folder" \notin DOMAIN an.files_info[1]
    /\ an.files_info[Len(an.files_info)].sid_folder = bin.items[2].name

====
